---- MODULE Spec2Model ----
(***************************************************************************)
(* Model of the rate-limited, retrying HTTP fetch layer of sbstck-dl       *)
(* (package lib): Fetcher.FetchURLs, Fetcher.FetchURL, Fetcher.fetch, and  *)
(* the callers built directly on FetchURL.                                 *)
(*                                                                         *)
(* Processes: one goroutine per URL of a FetchURLs call (ids 1..Len(urls)),*)
(* the goroutine that waits for the group and closes the results channel,  *)
(* the consumer of the channel, and one direct caller of FetchURL (id 0).  *)
(* The library calls are modelled by their documented behaviour:           *)
(* rate.Limiter.Wait (token bucket), backoff.RetryNotify (retry loop with  *)
(* a timer between attempts), errgroup.WithContext and http.Client.Do.     *)
(***************************************************************************)
EXTENDS Integers, Sequences, FiniteSets, Bags, TLC

\* ---------------------------------------------------------------- bounds
\* Largest URL list handed to FetchURLs.
NumURLs == 3
\* Largest worker limit (Fetcher.MaxWorkers) tried.
MaxK == 2
\* Largest Len(urls) + MaxWorkers of a FetchURLs call.
MaxLoad == 4
\* Burst of the rate limiter (tokens the bucket holds).
Burst == 1
\* Largest URL list handed to ExtractAllPosts.
NumPosts == 2
\* Longest URL list for which the size of the pool is computed.
MaxPostList == 12
\* Most <url> entries of a sitemap.
MaxEntries == 2
\* Most <script> elements of a page.
MaxScripts == 2
\* Longest backoff interval, in ticks (one tick = one second), that
\* NextBackOff hands out in the timed specification.
MaxDelay == 2
MaxElems == 2
MaxNow == 1
MaxSrcset == 2
MaxNodes == 2

\* ------------------------------------------------------ program constants
defaultMaxRetryCount == 10
defaultRetryAfter == 60

\* ------------------------------------------------------------------ state
VARIABLES
    maxWorkers,     \* f.MaxWorkers
    urls,           \* the urls argument of FetchURLs
    timed,          \* TRUE: backoff intervals are measured against a clock
    callerKind,     \* which function the direct caller (process 0) runs
    fileExists,     \* downloadSingleFile: os.Stat(localPath) succeeds
    urlParses,      \* GetAllPostsURLs: url.Parse / url.JoinPath succeed
    initCancelled,  \* the context was already cancelled at invocation
    ctxCancelled,   \* the caller's context is done
    groupCancelled, \* the errgroup's derived context was cancelled by the group
    tokens,         \* tokens in the rate limiter's bucket
    sem,            \* number of elements in the sem channel
    results,        \* the buffer of the results channel
    closed,         \* the results channel is closed
    received,       \* what the consumer has received so far, a bag
    workerRet,      \* what each goroutine returned to the errgroup
    pc,             \* position of each process
    retryCounter,   \* FetchURL's retryCounter
    attempts,       \* HTTP requests issued by the process's FetchURL call
    err,            \* FetchURL's err
    body,           \* FetchURL's body: "nil", "open" or "closed"
    retryAfter,     \* RetryAfter of the FetchError of the last 429
    timer,          \* ticks left on RetryNotify's timer
    slept,          \* ticks elapsed since the last 429 was received
    callerResult,   \* what the direct caller returned
    multiplex,      \* the servers speak HTTP/2: requests share a connection
    urlCh,          \* ExtractAllPosts: the buffer of urlCh, as indices into urls
    job,            \* ExtractAllPosts: the index of the URL each worker took
    filter,         \* GetAllPostsURLs: the date filter f
    sitemap,        \* GetAllPostsURLs: the <url> entries of the fetched sitemap
    scanned,        \* GetAllPostsURLs: entries the scan has visited
    found,          \* GetAllPostsURLs: the urls slice
    lookups,        \* GetAllPostsURLs: how often a <lastmod> was looked up
    page,           \* ExtractPost: the texts of the <script> elements of the page
    post,           \* ExtractPost: the Post it returns, "zero" or "post"
    html,           \* DownloadFiles/DownloadImages: the elements of htmlContent
    extensions,     \* FileDownloader: fileExtensions is set (to "pdf")
    disk,           \* content of each file of the target directory
    now,            \* time.Now().Unix()
    mkdirs,         \* os.MkdirAll calls of the running download
    fetches,        \* FetchURL calls of the running download
    idx,            \* elements the download loop has handled
    files,          \* the Files / Images list of the running download
    updated,        \* UpdatedHTML of the result
    before,         \* content of the target directory when the download was called
    doc,            \* ImageDownloader: the nodes of the parsed htmlContent
    imageQuality,   \* ImageDownloader.imageQuality
    imageElements,  \* extractImageElements: the image elements found so far
    pending,        \* extractImageElements: the link and source URLs still to visit
    images,         \* DownloadImages: the Images list
    urlToRelPath,   \* the map from URL to local path used for rewriting
    rewritten,      \* the nodes of UpdatedHTML
    srcsetArg,      \* updateSrcsetAttribute: its srcset argument
    srcsetRet,      \* updateSrcsetAttribute: what it returned
    archive,        \* download: the posts of the publication, by their slug
    format,         \* download: the --format flag
    folder,         \* download: the files of the output folder
    filtered,       \* download: what filterExistingPosts returned
    progress,       \* download: the results of ExtractAllPosts handled so far
    BackoffCfg,     \* Fetcher: the state of the ExponentialBackOff it holds
    clock,          \* backoff: the time, in ticks
    interval,       \* backoff: what NextBackOff last returned to each call
    asked,          \* backoff: when each call last asked NextBackOff
    began,          \* backoff: when RetryNotify of each call began
    arg,            \* a function called on its own: its arguments
    ret             \* a function called on its own: <<>>, or <<what it returned>>

cfgVars == <<maxWorkers, urls, timed, callerKind, fileExists, urlParses, initCancelled, multiplex>>
poolVars == <<urlCh, job>>
docVars == <<filter, sitemap, scanned, found, lookups, page, post>>
assetVars == <<html, extensions, disk, now, mkdirs, fetches, idx, files, updated, before>>
imgVars == <<doc, imageQuality, imageElements, pending, images, urlToRelPath, rewritten,
            srcsetArg, srcsetRet>>
resumeVars == <<archive, format, folder, filtered, progress>>
backoffVars == <<BackoffCfg, clock, interval, asked, began>>
pureVars == <<arg, ret>>
ctxVars == <<ctxCancelled, groupCancelled>>
chanVars == <<results, closed, received>>
fetchVars == <<retryCounter, attempts, err, body, retryAfter, timer, slept>>
vars == <<cfgVars, poolVars, docVars, assetVars, imgVars, resumeVars, backoffVars, pureVars, ctxVars, tokens, sem, chanVars, workerRet, pc, fetchVars, callerResult>>

Caller == 0
Workers == 1..Len(urls)
Procs == 0..NumURLs

\* The i-th URL of the list: the list holds repeated URLs.
UrlAt(i) == IF i % 2 = 1 THEN "a" ELSE "b"

min(a, b) == IF a < b THEN a ELSE b

\* cap(results) = min(len(urls), f.MaxWorkers*2)
ResultsCap == min(Len(urls), maxWorkers * 2)

\* Mutant of CtxDone: FetchURL called directly runs on a context of its
\* own that is never done.
CtxDoneBackground(p) == IF p = Caller THEN FALSE ELSE ctxCancelled \/ groupCancelled

\* ctx.Done() as seen by process p: a worker holds the errgroup's derived
\* context, the direct caller holds the caller's context.
CtxDone(p) == IF p = Caller THEN ctxCancelled ELSE ctxCancelled \/ groupCancelled

\* Retry-After header values a 429 response may carry: absent, not an
\* integer, or seconds.
HeaderValues == {"", "soon", "1", "2"}

\* strconv.Atoi on a header value: <<ok, value>>.
Atoi(h) == CASE h = "1" -> <<TRUE, 1>>
             [] h = "2" -> <<TRUE, 2>>
             [] OTHER -> <<FALSE, 0>>

\* fetch's retryAfter for a 429 response with header h.
RetryAfterOf(h) == IF h # "" /\ Atoi(h)[1] THEN Atoi(h)[2] ELSE defaultRetryAfter

\* What one HTTP attempt can end with.
Responses == {[kind |-> "ok", header |-> ""], [kind |-> "status", header |-> ""],
              [kind |-> "transport", header |-> ""]}
             \cup {[kind |-> "tooMany", header |-> h] : h \in HeaderValues}

\* Intervals NextBackOff may hand out: positive durations; without a clock
\* the interval is not measured.
Delays == IF timed THEN 1..MaxDelay ELSE {0}

CallerKinds == {"FetchURL", "ExtractPost", "GetAllPostsURLs", "downloadSingleFile"}

\* The names a target file can have: the file name of a URL, or a generated
\* name that carries the time of its generation.
Names == ({"f1", "f2"} \X {0}) \cup ({"file"} \X (0..MaxNow))

\* No asset download is being made.
NoAssets ==
    /\ html = [fragment |-> TRUE, elems |-> <<>>]
    /\ extensions = FALSE
    /\ disk = [n \in Names |-> "absent"]
    /\ now = 0
    /\ mkdirs = 0
    /\ fetches = 0
    /\ idx = 0
    /\ files = <<>>
    /\ updated = [fragment |-> TRUE, elems |-> <<>>]
    /\ before = [n \in Names |-> "absent"]

\* The map without a key.
NoMap == [u \in {} |-> ""]

\* No image is being extracted or rewritten.
NoImages ==
    /\ doc = <<>>
    /\ imageQuality = "high"
    /\ imageElements = <<>>
    /\ pending = <<>>
    /\ images = <<>>
    /\ urlToRelPath = NoMap
    /\ rewritten = <<>>
    /\ srcsetArg = [sep |-> ", ", entries |-> <<>>]
    /\ srcsetRet = [sep |-> ", ", entries |-> <<>>]

\* No archive is being downloaded.
NoArchive ==
    /\ archive = <<>>
    /\ format = "html"
    /\ folder = {}
    /\ filtered = <<>>
    /\ progress = {}

\* backoff.NewExponentialBackOff as makeDefaultBackoff leaves it.
InitialInterval == 1
NewBackOff == [currentInterval |-> InitialInterval, startTime |-> 0]

\* No retry loop is being watched.
NoBackoff ==
    /\ BackoffCfg = NewBackOff
    /\ clock = 0
    /\ interval = [p \in Procs |-> 0]
    /\ asked = [p \in Procs |-> 0]
    /\ began = [p \in Procs |-> 0]

\* No function is called on its own.
NoPure ==
    /\ arg = <<>>
    /\ ret = <<>>

\* ------------------------------------------------------------------- Init
InitCommon ==
    /\ ctxCancelled \in BOOLEAN
    /\ initCancelled = ctxCancelled
    /\ groupCancelled = FALSE
    /\ tokens = Burst
    /\ sem = 0
    /\ results = <<>>
    /\ closed = FALSE
    /\ received = EmptyBag
    /\ workerRet = [p \in Procs |-> "none"]
    /\ retryCounter = [p \in Procs |-> 0]
    /\ attempts = [p \in Procs |-> 0]
    /\ err = [p \in Procs |-> "nil"]
    /\ body = [p \in Procs |-> "nil"]
    /\ retryAfter = [p \in Procs |-> 0]
    /\ timer = [p \in Procs |-> 0]
    /\ slept = [p \in Procs |-> 0]
    /\ callerResult = "none"
    /\ job = [p \in Procs |-> 0]
    /\ sitemap = <<>>
    /\ scanned = 0
    /\ found = <<>>
    /\ lookups = 0
    /\ post = "zero"

\* One FetchURLs call on a fresh Fetcher; nobody calls FetchURL directly.
Init ==
    /\ InitCommon
    /\ NoAssets
    /\ NoImages
    /\ NoArchive
    /\ NoBackoff
    /\ NoPure
    /\ \E n \in 0..NumURLs : urls = [i \in 1..n |-> UrlAt(i)]
    /\ maxWorkers \in {k \in 1..MaxK : k + Len(urls) <= MaxLoad}
    /\ timed = FALSE
    /\ multiplex = FALSE
    /\ urlCh = <<>>
    /\ filter = "nil"
    /\ page = <<>>
    /\ callerKind = "none"
    /\ fileExists = FALSE
    /\ urlParses = TRUE
    /\ pc = [p \in Procs |-> IF p \in 1..Len(urls) THEN "acquire" ELSE "idle"]

\* One direct call (FetchURL, or a function built on it), measured against
\* a clock; FetchURLs is called with an empty list.
InitCall ==
    /\ InitCommon
    /\ NoAssets
    /\ NoImages
    /\ NoArchive
    /\ NoBackoff
    /\ NoPure
    /\ maxWorkers = 1
    /\ urls = <<>>
    /\ timed = TRUE
    /\ multiplex = FALSE
    /\ urlCh = <<>>
    /\ filter = "nil"
    /\ page = <<>>
    /\ callerKind \in CallerKinds
    /\ fileExists \in (IF callerKind = "downloadSingleFile" THEN BOOLEAN ELSE {FALSE})
    /\ urlParses \in (IF callerKind = "GetAllPostsURLs" THEN BOOLEAN ELSE {TRUE})
    /\ pc = [p \in Procs |-> IF p = Caller THEN "call" ELSE "idle"]

\* ------------------------------------------------------------- FetchURL
\* Process p calls FetchURL itself: the direct caller, or a worker of
\* ExtractAllPosts (through ExtractPost).
Direct(p) == p = Caller \/ callerKind = "ExtractAllPosts"

\* The host of the URL process p fetches: "a" and "b" are URLs on two
\* different hosts.
HostOf(p) == IF p = Caller THEN "a"
             ELSE IF callerKind = "ExtractAllPosts"
             THEN (IF job[p] \in 1..Len(urls) THEN urls[job[p]] ELSE "")
             ELSE (IF p \in 1..Len(urls) THEN urls[p] ELSE "")

\* The requests of the Fetcher's Transport on the wire to the host of p,
\* other than p's own.
OnWire(p) == {q \in Procs \ {p} : pc[q] = "inflight" /\ HostOf(q) = HostOf(p)}

\* The Transport has a connection for p's request: MaxConnsPerHost is
\* MaxWorkers, and over HTTP/2 the requests to a host share a connection.
ConnFree(p) == multiplex \/ Cardinality(OnWire(p)) < maxWorkers

\* FetchURL returns (b, e) to process p: a worker goes on to hand the
\* result over, the direct caller has its result. The locals of the call
\* are gone; the counters of a direct call are kept for inspection.
Return(p, b, e) ==
    /\ body' = [body EXCEPT ![p] = b]
    /\ err' = [err EXCEPT ![p] = e]
    /\ retryCounter' = [retryCounter EXCEPT ![p] = IF p = Caller THEN @ ELSE 0]
    /\ attempts' = [attempts EXCEPT ![p] = IF p = Caller THEN @ ELSE 0]
    /\ retryAfter' = [retryAfter EXCEPT ![p] = 0]
    /\ timer' = [timer EXCEPT ![p] = 0]
    /\ slept' = [slept EXCEPT ![p] = 0]
    /\ pc' = [pc EXCEPT ![p] = IF Direct(p) THEN "returned" ELSE "send"]

\* Mutant of ClientDo: the request is sent whatever the context says.
ClientDoIgnoresCtx(p) ==
    /\ attempts' = [attempts EXCEPT ![p] = @ + 1]
    /\ pc' = [pc EXCEPT ![p] = IF ConnFree(p) THEN "inflight" ELSE "dial"]
    /\ err' = [err EXCEPT ![p] = "nil"]
    /\ retryAfter' = [retryAfter EXCEPT ![p] = 0]
    /\ slept' = [slept EXCEPT ![p] = 0]
    /\ UNCHANGED <<retryCounter, body, timer>>

\* fetch: Client.Do with the request's context. A context that is done
\* fails the call before a request is sent; that error is not a
\* *FetchError, so operation returns it as permanent. Otherwise the
\* request is handed to the Transport (err holds the nil that Wait
\* returned), which sends it or makes it wait for a connection.
ClientDo(p) ==
    IF CtxDone(p)
    THEN Return(p, "nil", "ctx")
    ELSE /\ attempts' = [attempts EXCEPT ![p] = @ + 1]
         /\ pc' = [pc EXCEPT ![p] = IF ConnFree(p) THEN "inflight" ELSE "dial"]
         /\ err' = [err EXCEPT ![p] = "nil"]
         /\ retryAfter' = [retryAfter EXCEPT ![p] = 0]
         /\ slept' = [slept EXCEPT ![p] = 0]
         /\ UNCHANGED <<retryCounter, body, timer>>

\* Mutant of RetryCapReached: the cap is compared with >.
RetryCapOffByOne(p) == retryCounter[p] > defaultMaxRetryCount

\* operation() reached its retry cap: backoff.Permanent("max retry count
\* reached").
RetryCapReached(p) == retryCounter[p] >= defaultMaxRetryCount

\* rate.Limiter.Wait(ctx) on entry: what it does before it may block.
\* "ctx": the context is already done; "token": a token is there;
\* "block": the caller has to wait.
WaitEntry(p) == IF CtxDone(p) THEN "ctx" ELSE IF tokens > 0 THEN "token" ELSE "block"

\* Mutant of Operation: fetch is called without waiting for the limiter.
OperationNoWait(p) ==
    /\ IF RetryCapReached(p) THEN Return(p, "nil", "maxRetry") ELSE ClientDo(p)
    /\ UNCHANGED tokens

\* operation(): the retry cap, the rate limiter, then fetch. Where it
\* returns without calling fetch, the body FetchURL will return is the one
\* the captured variable holds.
Operation(p) ==
    IF RetryCapReached(p)
    THEN /\ Return(p, body[p], "maxRetry")
         /\ UNCHANGED tokens
    ELSE CASE WaitEntry(p) = "ctx" ->
                 /\ Return(p, body[p], "ctx")
                 /\ UNCHANGED tokens
           [] WaitEntry(p) = "token" ->
                 /\ tokens' = tokens - 1
                 /\ ClientDo(p)
           [] OTHER ->
                 /\ pc' = [pc EXCEPT ![p] = "wait"]
                 /\ retryAfter' = [retryAfter EXCEPT ![p] = 0]
                 /\ slept' = [slept EXCEPT ![p] = 0]
                 /\ UNCHANGED <<tokens, retryCounter, attempts, err, body, timer>>

\* RetryNotify calls operation() for the first time.
FirstAttempt(p) ==
    /\ pc[p] = "op"
    /\ Operation(p)
    /\ UNCHANGED <<cfgVars, poolVars, docVars, assetVars, imgVars, resumeVars, backoffVars, pureVars, ctxVars, sem, chanVars, workerRet, callerResult>>

\* Wait, blocked: the token arrives, Wait returns nil and fetch runs.
TokenGranted(p) ==
    /\ pc[p] = "wait"
    /\ tokens > 0
    /\ tokens' = tokens - 1
    /\ ClientDo(p)
    /\ UNCHANGED <<cfgVars, poolVars, docVars, assetVars, imgVars, resumeVars, backoffVars, pureVars, ctxVars, sem, chanVars, workerRet, callerResult>>

\* Wait, blocked: the context is done first; operation returns
\* backoff.Permanent(err) and RetryNotify returns it.
WaitCancelled(p) ==
    /\ pc[p] = "wait"
    /\ CtxDone(p)
    /\ Return(p, body[p], "ctx")
    /\ UNCHANGED <<cfgVars, poolVars, docVars, assetVars, imgVars, resumeVars, backoffVars, pureVars, ctxVars, tokens, sem, chanVars, workerRet, callerResult>>

\* The Transport, request waiting for a connection: one is free.
ConnGranted(p) ==
    /\ pc[p] = "dial"
    /\ ConnFree(p)
    /\ pc' = [pc EXCEPT ![p] = "inflight"]
    /\ UNCHANGED <<cfgVars, poolVars, docVars, assetVars, imgVars, resumeVars, backoffVars, pureVars, ctxVars, tokens, sem, chanVars, workerRet, fetchVars,
                   callerResult>>

\* The Transport, request waiting for a connection: the context is done.
DialCancelled(p) ==
    /\ pc[p] = "dial"
    /\ CtxDone(p)
    /\ Return(p, "nil", "ctx")
    /\ UNCHANGED <<cfgVars, poolVars, docVars, assetVars, imgVars, resumeVars, backoffVars, pureVars, ctxVars, tokens, sem, chanVars, workerRet, callerResult>>

\* The request in flight is aborted because the context is done.
ResponseCancelled(p) ==
    /\ pc[p] = "inflight"
    /\ CtxDone(p)
    /\ Return(p, "nil", "ctx")
    /\ UNCHANGED <<cfgVars, poolVars, docVars, assetVars, imgVars, resumeVars, backoffVars, pureVars, ctxVars, tokens, sem, chanVars, workerRet, callerResult>>

\* Mutant of Classify: every failed attempt is retried.
ClassifyRetryAll(k) == IF k = "ok" THEN "done" ELSE "retry"

\* The error class operation() gives an attempt that ended with a response
\* of kind k: "done" (nil), "retry" (a plain error: RetryNotify goes on) or
\* "permanent" (backoff.Permanent: RetryNotify returns).
Classify(k) == CASE k = "ok" -> "done"
                 [] k = "tooMany" -> "retry"
                 [] OTHER -> "permanent"

\* Mutant of Response: fetch hands the response body back with the error of
\* a response that is not retried.
ResponseKeepsBody(p) ==
    /\ pc[p] = "inflight"
    /\ \E r \in Responses :
         CASE Classify(r.kind) = "done" -> Return(p, "open", "nil")
           [] Classify(r.kind) = "permanent" -> Return(p, "open", r.kind)
           [] OTHER ->
                \/ Return(p, "nil", r.kind)
                \/ \E d \in Delays :
                     /\ retryCounter' = [retryCounter EXCEPT ![p] = @ + 1]
                     /\ err' = [err EXCEPT ![p] = r.kind]
                     /\ retryAfter' = [retryAfter EXCEPT ![p] = RetryAfterOf(r.header)]
                     /\ timer' = [timer EXCEPT ![p] = d]
                     /\ slept' = [slept EXCEPT ![p] = 0]
                     /\ pc' = [pc EXCEPT ![p] = "backoff"]
                     /\ UNCHANGED <<body, attempts>>
    /\ UNCHANGED <<cfgVars, poolVars, docVars, assetVars, imgVars, resumeVars, backoffVars, pureVars, ctxVars, tokens, sem, chanVars, workerRet, callerResult>>

\* fetch's classification of the response, the rest of operation(), and
\* RetryNotify's step after it: return, or ask NextBackOff for the interval
\* (Stop once the elapsed-time budget is spent) and start the timer.
Response(p) ==
    /\ pc[p] = "inflight"
    /\ \E r \in Responses :
         CASE Classify(r.kind) = "done" -> Return(p, "open", "nil")
           [] Classify(r.kind) = "permanent" -> Return(p, "nil", r.kind)
           [] OTHER ->
                \/ Return(p, "nil", r.kind)
                \/ \E d \in Delays :
                     /\ retryCounter' = [retryCounter EXCEPT ![p] = @ + 1]
                     /\ err' = [err EXCEPT ![p] = r.kind]
                     /\ retryAfter' = [retryAfter EXCEPT ![p] = RetryAfterOf(r.header)]
                     /\ timer' = [timer EXCEPT ![p] = d]
                     /\ slept' = [slept EXCEPT ![p] = 0]
                     /\ pc' = [pc EXCEPT ![p] = "backoff"]
                     /\ UNCHANGED <<body, attempts>>
    /\ UNCHANGED <<cfgVars, poolVars, docVars, assetVars, imgVars, resumeVars, backoffVars, pureVars, ctxVars, tokens, sem, chanVars, workerRet, callerResult>>

\* RetryNotify's select between attempts: the BackOff of the Fetcher
\* carries no context, so the only case that can fire is the timer.
BackoffWake(p) == timer[p] = 0

\* The timer fires and RetryNotify calls operation() again.
TimerFired(p) ==
    /\ pc[p] = "backoff"
    /\ BackoffWake(p)
    /\ Operation(p)
    /\ UNCHANGED <<cfgVars, poolVars, docVars, assetVars, imgVars, resumeVars, backoffVars, pureVars, ctxVars, sem, chanVars, workerRet, callerResult>>

\* ------------------------------------------------------------ FetchURLs
\* Mutant of SemFree: a semaphore channel with one slot too many.
SemFreeOffByOne == sem <= maxWorkers

\* The send on sem can proceed: the channel holds fewer than MaxWorkers.
SemFree == sem < maxWorkers

\* The goroutine of urls[i], first select: the semaphore is acquired.
AcquireSem(i) ==
    /\ pc[i] = "acquire"
    /\ SemFree
    /\ sem' = sem + 1
    /\ pc' = [pc EXCEPT ![i] = "op"]
    /\ UNCHANGED <<cfgVars, poolVars, docVars, assetVars, imgVars, resumeVars, backoffVars, pureVars, ctxVars, tokens, chanVars, workerRet, fetchVars, callerResult>>

\* First select, case <-ctx.Done(): return ctx.Err(). The errgroup cancels
\* its context on the first non-nil return.
AcquireCancelled(i) ==
    /\ pc[i] = "acquire"
    /\ CtxDone(i)
    /\ workerRet' = [workerRet EXCEPT ![i] = "ctx"]
    /\ groupCancelled' = TRUE
    /\ pc' = [pc EXCEPT ![i] = "done"]
    /\ UNCHANGED <<cfgVars, poolVars, docVars, assetVars, imgVars, resumeVars, backoffVars, pureVars, ctxCancelled, tokens, sem, chanVars, fetchVars, callerResult>>

\* The FetchResult the goroutine of urls[i] hands over.
ResultOf(i) == [id |-> i, Url |-> urls[i], Body |-> body[i], Error |-> err[i]]

\* The send on results can proceed: the buffer has room.
ResultsRoom == Len(results) < ResultsCap

\* Mutant of Send: a failed fetch is returned to the errgroup as the
\* goroutine's error instead of being handed over as a result.
SendFailFast(i) ==
    /\ pc[i] = "send"
    /\ IF err[i] # "nil"
       THEN /\ workerRet' = [workerRet EXCEPT ![i] = "err"]
            /\ groupCancelled' = TRUE
            /\ UNCHANGED results
       ELSE /\ ResultsRoom
            /\ results' = Append(results, ResultOf(i))
            /\ workerRet' = [workerRet EXCEPT ![i] = "nil"]
            /\ UNCHANGED groupCancelled
    /\ sem' = sem - 1
    /\ pc' = [pc EXCEPT ![i] = "done"]
    /\ UNCHANGED <<cfgVars, poolVars, docVars, assetVars, imgVars, resumeVars, backoffVars, pureVars, ctxCancelled, tokens, closed, received, fetchVars, callerResult>>

\* Second select, the send: the result is handed over, the deferred
\* receive from sem releases the slot, the goroutine returns nil.
Send(i) ==
    /\ pc[i] = "send"
    /\ ResultsRoom
    /\ results' = Append(results, ResultOf(i))
    /\ sem' = sem - 1
    /\ workerRet' = [workerRet EXCEPT ![i] = "nil"]
    /\ pc' = [pc EXCEPT ![i] = "done"]
    /\ UNCHANGED <<cfgVars, poolVars, docVars, assetVars, imgVars, resumeVars, backoffVars, pureVars, ctxVars, tokens, closed, received, fetchVars, callerResult>>

\* Mutant of SendSeesCancel: a plain send, without the select.
SendBlind(i) == FALSE

\* The second select can take case <-ctx.Done().
SendSeesCancel(i) == CtxDone(i)

\* Second select, case <-ctx.Done(): the body is closed if there is one,
\* the slot is released, the goroutine returns ctx.Err().
SendCancelled(i) ==
    /\ pc[i] = "send"
    /\ SendSeesCancel(i)
    /\ body' = [body EXCEPT ![i] = IF @ = "open" THEN "closed" ELSE @]
    /\ sem' = sem - 1
    /\ workerRet' = [workerRet EXCEPT ![i] = "ctx"]
    /\ groupCancelled' = TRUE
    /\ pc' = [pc EXCEPT ![i] = "done"]
    /\ err' = [err EXCEPT ![i] = "nil"]
    /\ UNCHANGED <<cfgVars, poolVars, docVars, assetVars, imgVars, resumeVars, backoffVars, pureVars, ctxCancelled, tokens, chanVars, retryCounter, attempts,
                   retryAfter, timer, slept, callerResult>>

\* Mutant of AllReturned: the channel is closed once one goroutine returned.
SomeReturned == \E i \in Workers : pc[i] = "done"

\* Every goroutine of the group has returned.
AllReturned == \A i \in Workers : pc[i] = "done"

\* The closing goroutine: g.Wait() returns once every goroutine has
\* returned (and cancels the group's context), then close(results).
CloseResults ==
    /\ ~closed
    /\ AllReturned
    /\ groupCancelled' = TRUE
    /\ closed' = TRUE
    /\ UNCHANGED <<cfgVars, poolVars, docVars, assetVars, imgVars, resumeVars, backoffVars, pureVars, ctxCancelled, tokens, sem, results, received, workerRet, pc,
                   fetchVars, callerResult>>

\* The consumer receives the next result from the channel.
Receive ==
    /\ results # <<>>
    /\ received' = received (+) SetToBag({Head(results)})
    /\ results' = Tail(results)
    /\ UNCHANGED <<cfgVars, poolVars, docVars, assetVars, imgVars, resumeVars, backoffVars, pureVars, ctxVars, tokens, sem, closed, workerRet, pc, fetchVars, callerResult>>

\* ------------------------------------------------------ ExtractAllPosts
\* Mutant of WorkerCount: a pool of one worker.
WorkerCountOne(n) == IF n < 1 THEN n ELSE 1

\* workerCount: 10, or len(urls) when that is smaller.
WorkerCount(n) == IF n < 10 THEN n ELSE 10

\* The workers of one ExtractAllPosts call.
Pool == IF callerKind = "ExtractAllPosts" THEN 1..WorkerCount(Len(urls)) ELSE {}

\* One ExtractAllPosts call on a Fetcher nobody else uses, after the URL
\* channel has been filled and closed and the workers have been started.
\* The first URL is on host "a", the others on either host.
InitExtract ==
    /\ InitCommon
    /\ NoAssets
    /\ NoImages
    /\ NoArchive
    /\ NoBackoff
    /\ NoPure
    /\ callerKind = "ExtractAllPosts"
    /\ \E n \in 0..NumPosts :
         /\ urls \in {u \in [1..n -> {"a", "b"}] : n > 0 => u[1] = "a"}
         /\ urlCh = [i \in 1..n |-> i]
    /\ maxWorkers \in 1..MaxK
    /\ multiplex \in BOOLEAN
    /\ filter = "nil"
    /\ page = <<>>
    /\ timed = FALSE
    /\ fileExists = FALSE
    /\ urlParses = TRUE
    /\ pc = [p \in Procs |-> IF p \in 1..WorkerCount(Len(urls)) THEN "pull" ELSE "idle"]

\* Mutant of PullSeesCancel: the worker does not look at the context.
PullBlind(w) == FALSE

\* The select of the worker loop takes case <-ctx.Done().
PullSeesCancel(w) == CtxDone(w)

\* The worker loop: range over urlCh ends when the closed channel is
\* drained; otherwise the next URL is received and the select either
\* returns (the context is done) or goes on to ExtractPost.
Pull(w) ==
    /\ pc[w] = "pull"
    /\ IF urlCh = <<>>
       THEN /\ pc' = [pc EXCEPT ![w] = "exit"]
            /\ UNCHANGED poolVars
       ELSE /\ urlCh' = Tail(urlCh)
            /\ IF PullSeesCancel(w)
               THEN /\ pc' = [pc EXCEPT ![w] = "exit"]
                    /\ UNCHANGED job
               ELSE /\ pc' = [pc EXCEPT ![w] = "op"]
                    /\ job' = [job EXCEPT ![w] = Head(urlCh)]
    /\ UNCHANGED <<cfgVars, docVars, assetVars, imgVars, resumeVars, backoffVars, pureVars, ctxVars, tokens, sem, chanVars, workerRet, fetchVars, callerResult>>

\* What ExtractPost returns once FetchURL has returned error e: the
\* wrapped fetch error, or what the page yields: a Post, an error of the
\* parsing steps, or the zero Post of a JSON text without a "post" member.
ExtractOutcomes(e) ==
    IF e # "nil"
    THEN {[Post |-> "zero", Err |-> e]}
    ELSE {[Post |-> "post", Err |-> "nil"], [Post |-> "zero", Err |-> "parse"],
          [Post |-> "zero", Err |-> "nil"]}

\* Mutant of ExtractSend: a failed extraction is not reported.
ExtractSendDropsErrors(w, o) == IF o.Err # "nil" THEN results ELSE Append(results, [id |-> job[w], Post |-> o.Post, Err |-> o.Err])

\* resultCh after the worker has sent the ExtractResult of outcome o.
ExtractSend(w, o) == Append(results, [id |-> job[w], Post |-> o.Post, Err |-> o.Err])

\* The send on resultCh can proceed: the buffer (capacity len(urls)) has
\* room.
ResultChRoom == Len(results) < Len(urls)

\* The rest of ExtractPost (the deferred body.Close() included) and the
\* send of its result on resultCh; the worker goes back to the range.
Deliver(w) ==
    /\ pc[w] = "returned"
    /\ ResultChRoom
    /\ \E o \in ExtractOutcomes(err[w]) : results' = ExtractSend(w, o)
    /\ err' = [err EXCEPT ![w] = "nil"]
    /\ body' = [body EXCEPT ![w] = "nil"]
    /\ job' = [job EXCEPT ![w] = 0]
    /\ pc' = [pc EXCEPT ![w] = "pull"]
    /\ UNCHANGED <<cfgVars, docVars, assetVars, imgVars, resumeVars, backoffVars, pureVars, urlCh, ctxVars, tokens, sem, closed, received, workerRet,
                   retryCounter, attempts, retryAfter, timer, slept, callerResult>>

\* Every worker of the pool has returned (wg.Done).
PoolDone == \A w \in Pool : pc[w] = "exit"

\* The outer goroutine: wg.Wait() returns, the deferred close(resultCh).
ExtractClose ==
    /\ callerKind = "ExtractAllPosts"
    /\ ~closed
    /\ PoolDone
    /\ closed' = TRUE
    /\ UNCHANGED <<cfgVars, poolVars, docVars, assetVars, imgVars, resumeVars, backoffVars, pureVars, ctxVars, tokens, sem, results, received, workerRet, pc,
                   fetchVars, callerResult>>

\* ------------------------------------------------------------ environment
\* The owner of the context cancels it.
Cancel ==
    /\ ~ctxCancelled
    /\ ctxCancelled' = TRUE
    /\ UNCHANGED <<cfgVars, poolVars, docVars, assetVars, imgVars, resumeVars, backoffVars, pureVars, groupCancelled, tokens, sem, chanVars, workerRet, pc, fetchVars,
                   callerResult>>

\* The limiter's bucket refills with time, up to its burst.
Refill ==
    /\ tokens < Burst
    /\ tokens' = tokens + 1
    /\ UNCHANGED <<cfgVars, poolVars, docVars, assetVars, imgVars, resumeVars, backoffVars, pureVars, ctxVars, sem, chanVars, workerRet, pc, fetchVars, callerResult>>

\* One tick of the clock while a backoff timer is running.
Tick ==
    /\ timed
    /\ \E p \in Procs : pc[p] = "backoff" /\ timer[p] > 0
    /\ timer' = [p \in Procs |-> IF timer[p] > 0 THEN timer[p] - 1 ELSE 0]
    /\ slept' = [p \in Procs |-> IF pc[p] = "backoff" /\ timer[p] > 0 THEN slept[p] + 1 ELSE slept[p]]
    /\ UNCHANGED <<cfgVars, poolVars, docVars, assetVars, imgVars, resumeVars, backoffVars, pureVars, ctxVars, tokens, sem, chanVars, workerRet, pc, retryCounter,
                   attempts, err, body, retryAfter, callerResult>>

\* ------------------------------------------------- callers of FetchURL
\* What the caller does before it calls FetchURL: downloadSingleFile
\* reports an existing target as downloaded; GetAllPostsURLs returns the
\* error of url.Parse / url.JoinPath; "" when FetchURL is called.
BeforeFetch == CASE callerKind = "downloadSingleFile" /\ fileExists -> "success"
                 [] callerKind = "GetAllPostsURLs" /\ ~urlParses -> "parseError"
                 [] OTHER -> ""

CallerStart ==
    /\ pc[Caller] = "call"
    /\ IF BeforeFetch # ""
       THEN /\ callerResult' = BeforeFetch
            /\ pc' = [pc EXCEPT ![Caller] = "done"]
       ELSE /\ pc' = [pc EXCEPT ![Caller] = "op"]
            /\ UNCHANGED callerResult
    /\ UNCHANGED <<cfgVars, poolVars, docVars, assetVars, imgVars, resumeVars, backoffVars, pureVars, ctxVars, tokens, sem, chanVars, workerRet, fetchVars>>

\* What the caller makes of FetchURL's return: an error is returned
\* (ExtractPost wraps it with %w, downloadSingleFile stores it in
\* FileInfo.Error); with a body the caller goes on and closes it.
AfterFetch == IF err[Caller] # "nil" THEN err[Caller] ELSE "proceeds"

CallerFinish ==
    /\ pc[Caller] = "returned"
    /\ callerResult' = AfterFetch
    /\ body' = [body EXCEPT ![Caller] = IF @ = "open" /\ callerKind # "FetchURL" THEN "closed" ELSE @]
    /\ pc' = [pc EXCEPT ![Caller] = "done"]
    /\ UNCHANGED <<cfgVars, poolVars, docVars, assetVars, imgVars, resumeVars, backoffVars, pureVars, ctxVars, tokens, sem, chanVars, workerRet, retryCounter, attempts,
                   err, retryAfter, timer, slept>>

\* ------------------------------------------------------ GetAllPostsURLs
\* Texts of a <loc>, as sequences of pieces: absent, two post URLs, a page
\* that is no post, and a URL that ends in "/p".
Locs == {<<>>, <<"h", "/p/", "one">>, <<"h", "/p/", "two">>, <<"h", "/about">>, <<"h", "/p">>}

\* Texts of a <lastmod>: absent (the empty string, 0) or a date.
Lastmods == 0..2

\* The <url> entries a sitemap may hold.
Entries == [loc : Locs, lastmod : Lastmods]

Sitemaps == UNION {[1..k -> Entries] : k \in 0..MaxEntries}

\* The date filters a caller passes: none, dates after 1, no date at all.
Filters == {"nil", "after", "never"}

\* f(lastmod) for a filter that is not nil.
Accepts(f, d) == f = "after" /\ d > 1

\* strings.Contains(url, "/p/")
ContainsPost(u) == \E i \in 1..Len(u) : u[i] = "/p/"

\* Mutant of Keep: the date filter is not asked.
KeepAnyDate(e) == ContainsPost(e.loc)

\* The callback appends the entry's loc: it contains "/p/" and the
\* filter, if there is one, accepts the lastmod.
Keep(e) == ContainsPost(e.loc) /\ (filter # "nil" => Accepts(filter, e.lastmod))

\* One GetAllPostsURLs call.
InitSitemap ==
    /\ InitCommon
    /\ NoAssets
    /\ NoImages
    /\ NoArchive
    /\ NoBackoff
    /\ NoPure
    /\ callerKind = "GetAllPostsURLs"
    /\ urlParses \in BOOLEAN
    /\ fileExists = FALSE
    /\ filter \in Filters
    /\ page = <<>>
    /\ maxWorkers = 1
    /\ urls = <<>>
    /\ urlCh = <<>>
    /\ multiplex = FALSE
    /\ timed = FALSE
    /\ pc = [p \in Procs |-> IF p = Caller THEN "call" ELSE "idle"]

\* FetchURL failed: GetAllPostsURLs returns nil and the error.
FetchFailed ==
    /\ err[Caller] # "nil"
    /\ CallerFinish

\* goquery.NewDocumentFromReader(body): the document is read from the
\* body, or reading fails and the error is returned. The deferred
\* body.Close() runs at every return.
ParseSitemap ==
    /\ pc[Caller] = "returned"
    /\ err[Caller] = "nil"
    /\ \/ /\ sitemap' \in Sitemaps
          /\ pc' = [pc EXCEPT ![Caller] = "scan"]
          /\ UNCHANGED <<body, callerResult>>
       \/ /\ callerResult' = "parse"
          /\ body' = [body EXCEPT ![Caller] = "closed"]
          /\ pc' = [pc EXCEPT ![Caller] = "done"]
          /\ UNCHANGED sitemap
    /\ UNCHANGED <<cfgVars, poolVars, assetVars, imgVars, resumeVars, backoffVars, pureVars, filter, scanned, found, lookups, page, post, ctxVars, tokens, sem,
                   chanVars, workerRet, retryCounter, attempts, err, retryAfter, timer, slept>>

\* One call of the EachWithBreak callback: it breaks when the context is
\* done; otherwise it skips the entry or appends its loc.
ScanEntry ==
    /\ pc[Caller] = "scan"
    /\ scanned < Len(sitemap)
    /\ IF CtxDone(Caller)
       THEN /\ pc' = [pc EXCEPT ![Caller] = "scanned"]
            /\ UNCHANGED <<scanned, found, lookups>>
       ELSE LET e == sitemap[scanned + 1] IN
            /\ scanned' = scanned + 1
            /\ lookups' = IF ContainsPost(e.loc) /\ filter # "nil" THEN lookups + 1 ELSE lookups
            /\ found' = IF Keep(e) THEN Append(found, e.loc) ELSE found
            /\ UNCHANGED pc
    /\ UNCHANGED <<cfgVars, poolVars, assetVars, imgVars, resumeVars, backoffVars, pureVars, filter, sitemap, page, post, ctxVars, tokens, sem, chanVars,
                   workerRet, fetchVars, callerResult>>

\* EachWithBreak is over (every entry visited, or the callback broke):
\* return urls, nil.
ScanReturn ==
    /\ \/ pc[Caller] = "scan" /\ scanned = Len(sitemap)
       \/ pc[Caller] = "scanned"
    /\ callerResult' = "urls"
    /\ body' = [body EXCEPT ![Caller] = "closed"]
    /\ pc' = [pc EXCEPT ![Caller] = "done"]
    /\ UNCHANGED <<cfgVars, poolVars, docVars, assetVars, imgVars, resumeVars, backoffVars, pureVars, ctxVars, tokens, sem, chanVars, workerRet,
                   retryCounter, attempts, err, retryAfter, timer, slept>>

\* ---------------------------------------------------------- ExtractPost
\* The text of a script, as a sequence of pieces: "W" is window._preloads,
\* "J" is JSON.parse( , "Q" a double quote, "P" a closing parenthesis;
\* the other pieces are text free of quotes: "o" unescapes to a JSON
\* object with a post member, "n" to a JSON value without one ({} or
\* null), "t" to text that is no JSON, and "b" holds an invalid escape.
Prefixes == {<<>>, <<"W">>}
Openers == {<<>>, <<"J">>, <<"J", "Q">>}
Payloads == {<<>>, <<"o">>, <<"n">>, <<"t">>, <<"b">>, <<"o", "o">>, <<"o", "Q", "P">>}
Closers == {<<>>, <<"Q", "P">>, <<"P">>}

Scripts == {a \o b \o c \o d : a \in Prefixes, b \in Openers, c \in Payloads, d \in Closers}

Pages == UNION {[1..k -> Scripts] : k \in 0..MaxScripts}

\* strings.Contains(s, x) for a one-piece x.
Has(s, x) == \E i \in 1..Len(s) : s[i] = x

\* The places where the two pieces x, y follow each other in s.
Places(s, x, y) == {i \in 1..(Len(s) - 1) : s[i] = x /\ s[i + 1] = y}

\* strings.Index / strings.LastIndex of the two pieces x, y in s; 0 when
\* they do not occur.
Index(s, x, y) == IF Places(s, x, y) = {} THEN 0
                  ELSE CHOOSE i \in Places(s, x, y) : \A j \in Places(s, x, y) : i <= j
LastIndex(s, x, y) == IF Places(s, x, y) = {} THEN 0
                      ELSE CHOOSE i \in Places(s, x, y) : \A j \in Places(s, x, y) : i >= j

\* The callback of extractJSONString on one script: <<found, jsonString>>.
ScriptJSON(s) ==
    IF Has(s, "W") /\ Has(s, "J")
    THEN LET start == Index(s, "J", "Q")
             end == LastIndex(s, "Q", "P")
         IN IF start = 0 THEN <<FALSE, <<>>>>
            ELSE IF end = 0 \/ start + 2 >= end THEN <<FALSE, <<>>>>
            ELSE <<TRUE, SubSeq(s, start + 2, end - 1)>>
    ELSE <<FALSE, <<>>>>

\* extractJSONString: the string of the first script that yields one;
\* <<found, jsonString>>.
RECURSIVE ExtractJSONString(_)
ExtractJSONString(pg) ==
    IF pg = <<>> THEN <<FALSE, <<>>>>
    ELSE IF ScriptJSON(Head(pg))[1] THEN ScriptJSON(Head(pg))
    ELSE ExtractJSONString(Tail(pg))

\* json.Unmarshal of the string between quotes succeeds: no raw quote and
\* no invalid escape.
Unescapes(j) == ~Has(j, "Q") /\ ~Has(j, "b")

\* Mutant of ToPost: text that is no JSON yields the zero Post and no error.
ToPostLenient(j) == IF j = <<"o">> THEN <<"post", "nil">> ELSE <<"zero", "nil">>

\* RawPost.ToPost on the unescaped text: <<Post, err>>. Only a single
\* JSON value parses; a value without a post member leaves the Post zero.
ToPost(j) == IF j = <<"o">> THEN <<"post", "nil">>
             ELSE IF j = <<"n">> THEN <<"zero", "nil">>
             ELSE <<"zero", "parsePost">>

\* ExtractPost once the page is read: <<Post, err>>.
PostOf(pg) ==
    LET x == ExtractJSONString(pg) IN
    IF ~x[1] THEN <<"zero", "extractJSON">>
    ELSE IF ~Unescapes(x[2]) THEN <<"zero", "unescape">>
    ELSE ToPost(x[2])

\* ExtractPost at the point where FetchURL has returned the body of a
\* page.
InitPage ==
    /\ InitCommon
    /\ NoAssets
    /\ NoImages
    /\ NoArchive
    /\ NoBackoff
    /\ NoPure
    /\ callerKind = "ExtractPost"
    /\ page \in Pages
    /\ filter = "nil"
    /\ urlParses = TRUE
    /\ fileExists = FALSE
    /\ maxWorkers = 1
    /\ urls = <<>>
    /\ urlCh = <<>>
    /\ multiplex = FALSE
    /\ timed = FALSE
    /\ pc = [p \in Procs |-> IF p = Caller THEN "call" ELSE "idle"]

\* ExtractPost, with the FetchURL call as one step that fails or yields
\* the body (only a context that is not done lets it succeed): the fetch
\* error wrapped, the error of reading the document, or what the page
\* yields. The deferred body.Close() runs when there was a body.
ExtractPostBody(fetched) ==
    /\ pc[Caller] = "call"
    /\ \/ /\ ~fetched
          /\ post' = "zero"
          /\ callerResult' = "fetch"
          /\ UNCHANGED body
       \/ /\ fetched
          /\ ~CtxDone(Caller)
          /\ body' = [body EXCEPT ![Caller] = "closed"]
          /\ \/ post' = "zero" /\ callerResult' = "parseHTML"
             \/ post' = PostOf(page)[1] /\ callerResult' = PostOf(page)[2]
    /\ pc' = [pc EXCEPT ![Caller] = "done"]
    /\ UNCHANGED <<cfgVars, poolVars, assetVars, imgVars, resumeVars, backoffVars, pureVars, filter, sitemap, scanned, found, lookups, page, ctxVars,
                   tokens, sem, chanVars, workerRet, retryCounter, attempts, err, retryAfter,
                   timer, slept>>

\* --------------------------------------------------------- specifications
\* A step of FetchURL run by process p.
FetchStep(p) ==
    \/ FirstAttempt(p)
    \/ TokenGranted(p)
    \/ WaitCancelled(p)
    \/ Response(p)
    \/ ResponseCancelled(p)
    \/ TimerFired(p)

\* A step of the goroutine of urls[i].
WorkerStep(i) ==
    \/ AcquireSem(i)
    \/ AcquireCancelled(i)
    \/ FetchStep(i)
    \/ Send(i)
    \/ SendCancelled(i)

Next ==
    \/ \E i \in Workers : WorkerStep(i)
    \/ CloseResults
    \/ Receive
    \/ Cancel
    \/ Refill

Spec == Init /\ [][Next]_vars

\* The goroutines are scheduled fairly, the limiter refills and timers
\* fire; the consumer and the owner of the context owe nothing.
FairSpec ==
    /\ Spec
    /\ \A i \in 1..NumURLs : WF_vars(i \in Workers /\ WorkerStep(i))
    /\ WF_vars(CloseResults)
    /\ WF_vars(Refill)

NextCall ==
    \/ CallerStart
    \/ FetchStep(Caller)
    \/ CallerFinish
    \/ Cancel
    \/ Refill
    \/ Tick

SpecCall == InitCall /\ [][NextCall]_vars

NextSitemap ==
    \/ CallerStart
    \/ FetchStep(Caller)
    \/ FetchFailed
    \/ ParseSitemap
    \/ ScanEntry
    \/ ScanReturn
    \/ Cancel
    \/ Refill

SpecSitemap == InitSitemap /\ [][NextSitemap]_vars

NextPage == \E fetched \in BOOLEAN : ExtractPostBody(fetched)

SpecPage == InitPage /\ [][NextPage]_vars

\* ----------------------------------------- DownloadFiles, DownloadImages
\* htmlContent is a list of elements, each with the URL it refers to:
\*   "p"      a paragraph,
\*   "a"      a link,
\*   "button" a link of class file-embed-button wide,
\*   "img"    an image.
\* The URLs are "" (attribute missing or empty), "rel" (not absolute), "u1"
\* (its path ends in f1.pdf), "u2" (in f2.zip), "q" (no file name in its
\* path) and "local" (a path below the output directory).  fragment says
\* that the text is not a whole document as html.Render writes it.
Refs == {"", "rel", "u1", "u2", "q"}

Elems ==
    {[tag |-> "p", ref |-> ""], [tag |-> "a", ref |-> "u1"]}
        \cup {[tag |-> "button", ref |-> r] : r \in Refs}
        \cup {[tag |-> "img", ref |-> r] : r \in {"", "u1", "u2"}}

Htmls == [fragment : BOOLEAN, elems : UNION {[1..n -> Elems] : n \in 0..MaxElems}]

extractFilenameFromURL(u) ==
    CASE u = "u1" -> "f1"
      [] u = "u2" -> "f2"
      [] OTHER -> ""

\* filepath.Ext of a file name, without the dot.
Ext(name) ==
    CASE name = "f1" -> "pdf"
      [] name = "f2" -> "zip"
      [] OTHER -> ""

isAllowedExtension(name) == ~extensions \/ Ext(name) = "pdf"

\* The Each callback of extractFileElements appends an element for e.  The
\* generated name attachment_<i> has no extension, as the empty name.
IsFileElement(e) ==
    /\ e.tag = "button"
    /\ e.ref \notin {"", "rel"}
    /\ isAllowedExtension(extractFilenameFromURL(e.ref))

extractFileElements(h) ==
    LET sel == SelectSeq(h.elems, IsFileElement)
    IN  [i \in 1..Len(sel) |-> sel[i].ref]

\* The BestURL of the img elements, each URL once.
RECURSIVE BestURLs(_, _)
BestURLs(es, seenBestURLs) ==
    IF es = <<>> THEN <<>>
    ELSE LET e == Head(es)
         IN  IF e.tag = "img" /\ e.ref # "" /\ e.ref \notin seenBestURLs
             THEN <<e.ref>> \o BestURLs(Tail(es), seenBestURLs \cup {e.ref})
             ELSE BestURLs(Tail(es), seenBestURLs)

extractImageElements(h) == BestURLs(h.elems, {})

Elements ==
    IF callerKind = "DownloadFiles" THEN extractFileElements(html)
    ELSE extractImageElements(html)

\* localPath of downloadSingleFile and of downloadSingleImage.  The names
\* f1 and f2 have no character that sanitizeFilename replaces.
LocalPath(u) ==
    IF extractFilenameFromURL(u) # "" THEN <<extractFilenameFromURL(u), 0>>
    ELSE IF callerKind = "DownloadFiles" THEN <<"file", now>>
    ELSE <<"f1", 0>>

\* Mutant of Stat: downloadSingleFile without the check for an existing
\* file.
StatMissesAll(path) == FALSE

\* os.Stat(localPath) succeeds.
Stat(path) == disk[path] # "absent"

\* Mutant of NothingFound: the download goes on with an empty list.
NothingFoundNever(els) == FALSE

\* len(fileElements) == 0, len(imageElements) == 0
NothingFound(els) == Len(els) = 0

\* urlToLocalPath, as the set of its keys.
urlToLocalPath == {files[i].url : i \in {j \in 1..Len(files) : files[j].ok}}

\* FileDownloader.updateHTMLWithLocalPaths replaces href="<url>" in the
\* text; ImageDownloader.updateHTMLWithLocalPaths sets the src of the img
\* and the href of the a elements, and renders the document.
updateHTMLWithLocalPaths(h, m) ==
    LET attrs == IF callerKind = "DownloadFiles" THEN {"a", "button"}
                 ELSE {"a", "button", "img"}
        upd(e) == IF e.tag \in attrs /\ e.ref \in m
                  THEN [e EXCEPT !.ref = "local"] ELSE e
    IN  [fragment |-> IF callerKind = "DownloadFiles" THEN h.fragment ELSE FALSE,
         elems |-> [i \in 1..Len(h.elems) |-> upd(h.elems[i])]]

successCount == Cardinality({i \in 1..Len(files) : files[i].ok})
failedCount == Cardinality({i \in 1..Len(files) : ~files[i].ok})

AssetKinds == {"DownloadFiles", "DownloadImages"}

InitAssets ==
    /\ InitCommon
    /\ maxWorkers = 1
    /\ urls = <<>>
    /\ timed = FALSE
    /\ multiplex = FALSE
    /\ urlCh = <<>>
    /\ filter = "nil"
    /\ page = <<>>
    /\ callerKind \in AssetKinds
    /\ fileExists = FALSE
    /\ urlParses = TRUE
    /\ NoImages
    /\ NoArchive
    /\ NoBackoff
    /\ NoPure
    /\ html \in Htmls
    /\ extensions \in (IF callerKind = "DownloadFiles" THEN BOOLEAN ELSE {FALSE})
    /\ disk \in {d \in [Names -> {"absent", "old"}] :
                    \A n \in Names : n[1] = "file" => d[n] = "absent"}
    /\ now = 0
    /\ mkdirs = 0
    /\ fetches = 0
    /\ idx = 0
    /\ files = <<>>
    /\ updated = [fragment |-> TRUE, elems |-> <<>>]
    /\ before = disk
    /\ pc = [p \in Procs |-> IF p = Caller THEN "call" ELSE "idle"]

\* DownloadFiles / DownloadImages up to the download loop.
DownloadStart ==
    /\ callerKind \in AssetKinds
    /\ pc[Caller] = "call"
    /\ IF NothingFound(Elements)
       THEN /\ updated' = html
            /\ callerResult' = "result"
            /\ pc' = [pc EXCEPT ![Caller] = "returned"]
            /\ UNCHANGED mkdirs
       ELSE /\ mkdirs' = mkdirs + 1
            /\ \E made \in BOOLEAN :
                 IF made
                 THEN /\ pc' = [pc EXCEPT ![Caller] = "loop"]
                      /\ UNCHANGED callerResult
                 ELSE /\ callerResult' = "mkdir"
                      /\ pc' = [pc EXCEPT ![Caller] = "returned"]
            /\ UNCHANGED updated
    /\ UNCHANGED <<cfgVars, poolVars, docVars, imgVars, resumeVars, backoffVars, pureVars, html, extensions, disk, now, fetches, idx,
                   files, before, ctxVars, tokens, sem, chanVars, workerRet, fetchVars>>

\* One round of the download loop: downloadSingleFile or
\* downloadSingleImage of the next element.  o is how far the download
\* gets: FetchURL fails ("fetch"), os.Create fails ("create"), io.Copy
\* fails and the file is removed ("copy"), or all succeed ("ok").
DownloadSingle(o) ==
    /\ callerKind \in AssetKinds
    /\ pc[Caller] = "loop"
    /\ idx < Len(Elements)
    /\ LET u == Elements[idx + 1]
           path == LocalPath(u)
       IN  IF callerKind = "DownloadFiles" /\ Stat(path)
           THEN /\ o = "ok"
                /\ files' = Append(files, [url |-> u, path |-> path, ok |-> TRUE,
                                            error |-> "nil"])
                /\ UNCHANGED <<disk, fetches>>
           ELSE /\ o # "fetch" => ~CtxDone(Caller)
                /\ fetches' = fetches + 1
                /\ disk' = CASE o = "ok" -> [disk EXCEPT ![path] = "new"]
                             [] o = "copy" -> [disk EXCEPT ![path] = "absent"]
                             [] OTHER -> disk
                /\ files' = Append(files, [url |-> u, path |-> path, ok |-> o = "ok",
                                            error |-> IF o = "ok" THEN "nil" ELSE o])
    /\ idx' = idx + 1
    /\ UNCHANGED <<cfgVars, poolVars, docVars, imgVars, resumeVars, backoffVars, pureVars, html, extensions, now, mkdirs, updated,
                   before, ctxVars, tokens, sem, chanVars, workerRet, pc, fetchVars,
                   callerResult>>

\* Mutant of LoopOver: the loop breaks at the first failed download.
LoopOverAtFailure == idx = Len(Elements) \/ (idx > 0 /\ ~files[idx].ok)

\* The range loop over the elements has no element left.
LoopOver == idx = Len(Elements)

\* The loop is over: the HTML is rewritten and the result returned.
DownloadReturn ==
    /\ callerKind \in AssetKinds
    /\ pc[Caller] = "loop"
    /\ LoopOver
    /\ updated' = updateHTMLWithLocalPaths(html, urlToLocalPath)
    /\ callerResult' = "result"
    /\ pc' = [pc EXCEPT ![Caller] = "returned"]
    /\ UNCHANGED <<cfgVars, poolVars, docVars, imgVars, resumeVars, backoffVars, pureVars, html, extensions, disk, now, mkdirs,
                   fetches, idx, files, before, ctxVars, tokens, sem, chanVars,
                   workerRet, fetchVars>>

\* The same download is called again, on the directory as it is now.
Rerun ==
    /\ callerKind \in AssetKinds
    /\ pc[Caller] = "returned"
    /\ pc' = [pc EXCEPT ![Caller] = "call"]
    /\ callerResult' = "none"
    /\ mkdirs' = 0
    /\ fetches' = 0
    /\ idx' = 0
    /\ files' = <<>>
    /\ updated' = [fragment |-> TRUE, elems |-> <<>>]
    /\ before' = disk
    /\ UNCHANGED <<cfgVars, poolVars, docVars, imgVars, resumeVars, backoffVars, pureVars, html, extensions, disk, now, ctxVars,
                   tokens, sem, chanVars, workerRet, fetchVars>>

\* A second passes.
NowAdvances ==
    /\ callerKind \in AssetKinds
    /\ now < MaxNow
    /\ now' = now + 1
    /\ UNCHANGED <<cfgVars, poolVars, docVars, imgVars, resumeVars, backoffVars, pureVars, html, extensions, disk, mkdirs, fetches,
                   idx, files, updated, before, ctxVars, tokens, sem, chanVars,
                   workerRet, pc, fetchVars, callerResult>>

NextAssets ==
    \/ DownloadStart
    \/ \E o \in {"fetch", "create", "copy", "ok"} : DownloadSingle(o)
    \/ DownloadReturn
    \/ Rerun
    \/ NowAdvances
    \/ Cancel

SpecAssets == InitAssets /\ [][NextAssets]_vars

\* ------------------------------------------------- ImageDownloader: URLs
\* The URL strings of the model:
\*   "A"   https://substack-post-media.s3.amazonaws.com/public/images/<a>.jpeg
\*   "Aw"  https://substackcdn.com/image/fetch/w_424,c_limit/<"A", escaped>
\*   "B"   https://substack-post-media.s3.amazonaws.com/public/images/<b>.jpeg
\*   "Aw~" https://substackcdn.com/image/fetch/w_424, "Aw" up to its first comma
\*   "rel" /img/x.png
\* where <a> and <b> are two UUIDs; "fa", "fb", "fw" and "fx" are the local
\* paths of the files they are saved to.
HttpURLs == {"A", "Aw", "B", "Aw~"}

\* strings.HasPrefix(url, "http://") || strings.HasPrefix(url, "https://")
IsHttp(u) == u \in HttpURLs

\* strings.Split(url, ",")[0]
BeforeComma(u) == IF u = "Aw" THEN "Aw~" ELSE u

\* The first match of the pattern ([a-f0-9-]{36}) in the URL, "" for none.
UUID(u) ==
    CASE u \in {"A", "Aw"} -> "a"
      [] u = "B" -> "b"
      [] OTHER -> ""

extractImageID(u) ==
    IF UUID(u) # "" THEN UUID(u)
    ELSE IF u = "rel" THEN "x"
    ELSE ""

\* strings.Contains(u, id), for id an identifier or the empty string.
Contains(u, id) == id = "" \/ (id # "x" /\ id = UUID(u)) \/ (id = "x" /\ u = "rel")

isSameImage(url1, url2) ==
    IF UUID(url1) # "" /\ UUID(url2) # "" THEN UUID(url1) = UUID(url2)
    ELSE Contains(url1, extractImageID(url2)) \/ Contains(url2, extractImageID(url1))

isImageURL(u) == u \in HttpURLs

\* The local path of downloadSingleImage, relative to the output directory:
\* the post's images directory and generateSafeFilename of the URL.
RelPath(u) ==
    CASE u \in {"A", "Aw"} -> "fa"
      [] u = "B" -> "fb"
      [] u = "Aw~" -> "fw"
      [] OTHER -> "fx"

RelPaths == {"fa", "fb", "fw", "fx"}

\* --------------------------------------------- ImageDownloader: srcset
\* A srcset is the list of its comma-separated entries, each a URL and a
\* descriptor ("" for none), and the separator written between them:
\* a comma followed, or surrounded, by a space.
Descriptors == {"", "424w", "1456w", "2x"}

\* The descriptor matches (\d+w).
IsWidth(d) == d \in {"424w", "1456w"}

\* strconv.Atoi(strings.TrimSuffix(d, "w"))
WidthOf(d) == IF d = "424w" THEN 424 ELSE 1456

SrcsetsOf(us, ds, n) ==
    [sep : {", ", " , "},
     entries : UNION {[1..k -> [url : us, desc : ds]] : k \in 0..n}]

Srcsets == SrcsetsOf({"A", "Aw", "B", "rel"}, Descriptors, MaxSrcset)

\* The entries "URL WIDTHw" the pattern finds; when it finds none, the
\* comma-separated parts that start with http:// or https://.  The first
\* part of a URL with commas is the URL up to its first comma.
parseSrcsetEntries(s) ==
    LET match(e) == IsHttp(e.url) /\ IsWidth(e.desc)
        matches == SelectSeq(s.entries, match)
        http(e) == IsHttp(BeforeComma(e.url))
        parts == SelectSeq(s.entries, http)
    IN  IF matches # <<>> THEN matches
        ELSE [i \in 1..Len(parts) |->
                 IF parts[i].url = BeforeComma(parts[i].url) THEN parts[i]
                 ELSE [url |-> BeforeComma(parts[i].url), desc |-> ""]]

\* m with key k set to v, and m without key k.
Put(m, k, v) == [x \in DOMAIN m \cup {k} |-> IF x = k THEN v ELSE m[x]]
Delete(m, k) == [x \in DOMAIN m \ {k} |-> m[x]]

\* The key of an entry in pathToEntry.
EntryKey(e, m) == IF e.url \in DOMAIN m THEN m[e.url] ELSE e.url

\* The first loop of updateSrcsetAttribute: pathToEntry after the entries es.
RECURSIVE PathToEntry(_, _, _)
PathToEntry(es, m, pathToEntry) ==
    IF es = <<>> THEN pathToEntry
    ELSE LET e == Head(es)
             k == EntryKey(e, m)
             newEntry == [url |-> k, desc |-> e.desc]
         IN  IF e.url \in DOMAIN m
             THEN IF k \in DOMAIN pathToEntry
                  THEN IF e.desc # "" /\ pathToEntry[k].desc = ""
                       THEN PathToEntry(Tail(es), m, Put(pathToEntry, k, newEntry))
                       ELSE PathToEntry(Tail(es), m, pathToEntry)
                  ELSE PathToEntry(Tail(es), m, Put(pathToEntry, k, newEntry))
             ELSE PathToEntry(Tail(es), m, Put(pathToEntry, k, e))

\* The second loop of updateSrcsetAttribute: updatedEntries.
RECURSIVE UpdatedEntries(_, _, _)
UpdatedEntries(es, m, pathToEntry) ==
    IF es = <<>> THEN <<>>
    ELSE LET k == EntryKey(Head(es), m)
         IN  IF k \in DOMAIN pathToEntry
             THEN <<pathToEntry[k]>> \o UpdatedEntries(Tail(es), m, Delete(pathToEntry, k))
             ELSE UpdatedEntries(Tail(es), m, pathToEntry)

updateSrcsetAttribute(s, m) ==
    IF s.entries = <<>> THEN s
    ELSE LET entries == parseSrcsetEntries(s)
         IN  [sep |-> ", ",
              entries |-> UpdatedEntries(entries, m, PathToEntry(entries, m, NoMap))]

\* The maps from URLs to local paths.
RelPathMaps == UNION {[D -> {"fa", "fb"}] : D \in SUBSET HttpURLs}

\* One call of updateSrcsetAttribute.
InitSrcset ==
    /\ InitCommon
    /\ NoAssets
    /\ NoArchive
    /\ NoBackoff
    /\ NoPure
    /\ maxWorkers = 1
    /\ urls = <<>>
    /\ timed = FALSE
    /\ multiplex = FALSE
    /\ urlCh = <<>>
    /\ filter = "nil"
    /\ page = <<>>
    /\ callerKind = "updateSrcsetAttribute"
    /\ fileExists = FALSE
    /\ urlParses = TRUE
    /\ doc = <<>>
    /\ imageQuality = "high"
    /\ imageElements = <<>>
    /\ pending = <<>>
    /\ images = <<>>
    /\ urlToRelPath \in RelPathMaps
    /\ rewritten = <<>>
    /\ srcsetArg \in Srcsets
    /\ srcsetRet = [sep |-> ", ", entries |-> <<>>]
    /\ pc = [p \in Procs |-> IF p = Caller THEN "call" ELSE "idle"]

UpdateSrcset ==
    /\ callerKind = "updateSrcsetAttribute"
    /\ pc[Caller] = "call"
    /\ srcsetRet' = updateSrcsetAttribute(srcsetArg, urlToRelPath)
    /\ pc' = [pc EXCEPT ![Caller] = "returned"]
    /\ UNCHANGED <<cfgVars, poolVars, docVars, assetVars, resumeVars, backoffVars, pureVars, doc, imageQuality, imageElements,
                   pending, images, urlToRelPath, rewritten, srcsetArg, ctxVars, tokens,
                   sem, chanVars, workerRet, fetchVars, callerResult>>

NextSrcset == UpdateSrcset

SpecSrcset == InitSrcset /\ [][NextSrcset]_vars

\* ------------------------------------------ ImageDownloader: the document
\* htmlContent is the list of its nodes in document order.  A node has a
\* tag ("img", "a", "source", or "text" for a text node), ref (the src of
\* an img, the href of an a, the text of a text node), data (the src field
\* of the data-attrs JSON of an img, "" for none) and srcset (of an img or
\* a source).
NoSrcset == [sep |-> ", ", entries |-> <<>>]

\* The srcset of one image in two widths, and one with a relative URL.
TwoWidths ==
    [sep |-> ", ", entries |-> <<[url |-> "A", desc |-> "424w"],
                                 [url |-> "Aw", desc |-> "1456w"]>>]
WithRelative ==
    [sep |-> " , ", entries |-> <<[url |-> "rel", desc |-> "424w"],
                                  [url |-> "Aw", desc |-> "1456w"]>>]

ImgNodes ==
    [tag : {"img"}, ref : {"", "A", "Aw", "B"}, data : {"", "A", "B"},
     srcset : {NoSrcset, TwoWidths}]

LinkNodes ==
    [tag : {"a"}, ref : {"A", "Aw", "B", "rel"}, data : {""}, srcset : {NoSrcset}]
    \cup [tag : {"source"}, ref : {""}, data : {""}, srcset : {TwoWidths, WithRelative}]

Nodes ==
    ImgNodes \cup LinkNodes
    \cup [tag : {"text"}, ref : {"A", "B"}, data : {""}, srcset : {NoSrcset}]

\* The documents of up to MaxNodes nodes, and those of MaxNodes img nodes
\* followed by an a or a source node.
Docs ==
    UNION {[1..n -> Nodes] : n \in 0..MaxNodes}
    \cup {d \o <<l>> : d \in [1..MaxNodes -> ImgNodes], l \in LinkNodes}

getTargetWidth ==
    CASE imageQuality = "high" -> 1456
      [] imageQuality = "medium" -> 848
      [] imageQuality = "low" -> 424
      [] OTHER -> 1456

extractAllURLsFromSrcset(s) ==
    LET entries == parseSrcsetEntries(s)
        http(e) == IsHttp(e.url)
        kept == SelectSeq(entries, http)
    IN  [i \in 1..Len(kept) |-> kept[i].url]

\* Mutant of BestOfSrcset: a width at or above the target replaces any
\* width found so far.
RECURSIVE BestOfSrcsetAnyAbove(_, _, _, _)
BestOfSrcsetAnyAbove(es, targetWidth, bestURL, bestWidth) ==
    IF es = <<>> THEN bestURL
    ELSE LET e == Head(es)
             width == WidthOf(e.desc)
         IN  IF /\ e.desc # "" /\ IsHttp(e.url) /\ IsWidth(e.desc)
                /\ \/ width = targetWidth
                   \/ bestURL = ""
                   \/ width >= targetWidth
                   \/ (width < targetWidth /\ bestWidth < targetWidth /\ width > bestWidth)
             THEN BestOfSrcsetAnyAbove(Tail(es), targetWidth, e.url, width)
             ELSE BestOfSrcsetAnyAbove(Tail(es), targetWidth, bestURL, bestWidth)

\* The loop of extractURLFromSrcset over the entries es, from the best URL
\* and width found so far.
RECURSIVE BestOfSrcset(_, _, _, _)
BestOfSrcset(es, targetWidth, bestURL, bestWidth) ==
    IF es = <<>> THEN bestURL
    ELSE LET e == Head(es)
             width == WidthOf(e.desc)
         IN  IF /\ e.desc # "" /\ IsHttp(e.url) /\ IsWidth(e.desc)
                /\ \/ width = targetWidth
                   \/ bestURL = ""
                   \/ (width >= targetWidth /\ (bestWidth < targetWidth \/ width < bestWidth))
                   \/ (width < targetWidth /\ bestWidth < targetWidth /\ width > bestWidth)
             THEN BestOfSrcset(Tail(es), targetWidth, e.url, width)
             ELSE BestOfSrcset(Tail(es), targetWidth, bestURL, bestWidth)

extractURLFromSrcset(s, targetWidth) ==
    BestOfSrcset(parseSrcsetEntries(s), targetWidth, "", 0)

getBestImageURL(n) ==
    IF n.data # "" THEN n.data
    ELSE IF extractURLFromSrcset(n.srcset, getTargetWidth) # ""
         THEN extractURLFromSrcset(n.srcset, getTargetWidth)
         ELSE n.ref

\* addURL: the list with url appended, unless it is empty or in the list.
addURL(allURLs, url) ==
    IF url # "" /\ \A i \in 1..Len(allURLs) : allURLs[i] # url
    THEN Append(allURLs, url) ELSE allURLs

RECURSIVE addURLs(_, _)
addURLs(allURLs, us) ==
    IF us = <<>> THEN allURLs ELSE addURLs(addURL(allURLs, Head(us)), Tail(us))

\* Mutant of AllURLsOf: only the URL that is downloaded is collected.
AllURLsBestOnly(n) == addURL(<<>>, getBestImageURL(n))

\* The AllURLs of getImageElementInfo: the src of data-attrs, the URLs of
\* the srcset, the src attribute.
AllURLsOf(n) ==
    addURL(addURLs(addURL(<<>>, n.data), extractAllURLsFromSrcset(n.srcset)), n.ref)

getImageElementInfo(n) == [BestURL |-> getBestImageURL(n), AllURLs |-> AllURLsOf(n)]

\* The first loop of extractImageElements, over the img nodes.
RECURSIVE ImgElements(_, _)
ImgElements(ns, els) ==
    IF ns = <<>> THEN els
    ELSE LET element == getImageElementInfo(Head(ns))
             seen == {els[i].BestURL : i \in 1..Len(els)}
         IN  IF Head(ns).tag = "img" /\ element.BestURL # "" /\ element.BestURL \notin seen
             THEN ImgElements(Tail(ns), Append(els, element))
             ELSE ImgElements(Tail(ns), els)

\* The URLs the second and the third loop of extractImageElements look at:
\* the href of the a nodes, then the srcset URLs of the source nodes, that
\* isImageURL accepts.
RECURSIVE LinkURLs(_, _)
LinkURLs(ns, tag) ==
    IF ns = <<>> THEN <<>>
    ELSE LET n == Head(ns)
             image(u) == isImageURL(u)
             us == IF n.tag # tag THEN <<>>
                   ELSE IF tag = "a" THEN <<n.ref>>
                   ELSE extractAllURLsFromSrcset(n.srcset)
         IN  SelectSeq(us, image) \o LinkURLs(Tail(ns), tag)

InitImages ==
    /\ InitCommon
    /\ NoAssets
    /\ NoArchive
    /\ NoBackoff
    /\ NoPure
    /\ maxWorkers = 1
    /\ urls = <<>>
    /\ timed = FALSE
    /\ multiplex = FALSE
    /\ urlCh = <<>>
    /\ filter = "nil"
    /\ page = <<>>
    /\ callerKind = "DownloadImages"
    /\ fileExists = FALSE
    /\ urlParses = TRUE
    /\ doc \in Docs
    /\ imageQuality \in {"high", "low"}
    /\ imageElements = <<>>
    /\ pending = <<>>
    /\ images = <<>>
    /\ urlToRelPath = NoMap
    /\ rewritten = <<>>
    /\ srcsetArg = NoSrcset
    /\ srcsetRet = NoSrcset
    /\ pc = [p \in Procs |-> IF p = Caller THEN "call" ELSE "idle"]

\* extractImageElements, its loop over the img nodes.
ExtractImgs ==
    /\ callerKind = "DownloadImages"
    /\ rewritten = <<>>
    /\ pc[Caller] = "call"
    /\ imageElements' = ImgElements(doc, <<>>)
    /\ pending' = LinkURLs(doc, "a") \o LinkURLs(doc, "source")
    /\ pc' = [pc EXCEPT ![Caller] = "extract"]
    /\ UNCHANGED <<cfgVars, poolVars, docVars, assetVars, resumeVars, backoffVars, pureVars, doc, imageQuality, images,
                   urlToRelPath, rewritten, srcsetArg, srcsetRet, ctxVars, tokens, sem,
                   chanVars, workerRet, fetchVars, callerResult>>

\* extractImageElements, one round of its loops over the a and the source
\* nodes: the URL is added to the first element of the same image that the
\* range over the map allURLsToCollect yields, g.
AttachURL(g) ==
    /\ callerKind = "DownloadImages"
    /\ pc[Caller] = "extract"
    /\ pending # <<>>
    /\ LET u == Head(pending)
           same == {i \in 1..Len(imageElements) : isSameImage(u, imageElements[i].BestURL)}
       IN  IF same = {}
           THEN g = 0 /\ UNCHANGED imageElements
           ELSE /\ g \in same
                /\ imageElements' =
                      [imageElements EXCEPT ![g].AllURLs = addURL(@, u)]
    /\ pending' = Tail(pending)
    /\ UNCHANGED <<cfgVars, poolVars, docVars, assetVars, resumeVars, backoffVars, pureVars, doc, imageQuality, images,
                   urlToRelPath, rewritten, srcsetArg, srcsetRet, ctxVars, tokens, sem,
                   chanVars, workerRet, pc, fetchVars, callerResult>>

\* DownloadImages after extractImageElements: the pass-through result for
\* no element, else os.MkdirAll.
ExtractReturn ==
    /\ callerKind = "DownloadImages"
    /\ pc[Caller] = "extract"
    /\ pending = <<>>
    /\ IF Len(imageElements) = 0
       THEN /\ rewritten' = doc
            /\ callerResult' = "result"
            /\ pc' = [pc EXCEPT ![Caller] = "returned"]
       ELSE /\ \E made \in BOOLEAN :
                 IF made
                 THEN /\ pc' = [pc EXCEPT ![Caller] = "loop"]
                      /\ UNCHANGED callerResult
                 ELSE /\ callerResult' = "mkdir"
                      /\ pc' = [pc EXCEPT ![Caller] = "returned"]
            /\ UNCHANGED rewritten
    /\ UNCHANGED <<cfgVars, poolVars, docVars, assetVars, resumeVars, backoffVars, pureVars, doc, imageQuality, imageElements,
                   pending, images, urlToRelPath, srcsetArg, srcsetRet, ctxVars, tokens,
                   sem, chanVars, workerRet, fetchVars>>

\* m with every URL of us mapped to path.
MapAll(m, us, path) ==
    [x \in DOMAIN m \cup {us[i] : i \in 1..Len(us)} |->
        IF \E i \in 1..Len(us) : us[i] = x THEN path ELSE m[x]]

\* Mutant of DownloadImage: the URLs of an element are mapped whether its
\* download succeeded or not.
DownloadImageMapsAll(success) ==
    /\ callerKind = "DownloadImages"
    /\ pc[Caller] = "loop"
    /\ Len(images) < Len(imageElements)
    /\ success => ~CtxDone(Caller)
    /\ LET element == imageElements[Len(images) + 1]
           localPath == RelPath(element.BestURL)
       IN  /\ images' = Append(images, [OriginalURL |-> element.BestURL,
                                        LocalPath |-> localPath,
                                        Success |-> success])
           /\ urlToRelPath' = MapAll(urlToRelPath, element.AllURLs, localPath)
    /\ UNCHANGED <<cfgVars, poolVars, docVars, assetVars, resumeVars, backoffVars, pureVars, doc, imageQuality, imageElements,
                   pending, rewritten, srcsetArg, srcsetRet, ctxVars, tokens, sem,
                   chanVars, workerRet, pc, fetchVars, callerResult>>

\* One round of the download loop of DownloadImages: downloadSingleImage of
\* the BestURL of the next element, which succeeds or fails.
DownloadImage(success) ==
    /\ callerKind = "DownloadImages"
    /\ pc[Caller] = "loop"
    /\ Len(images) < Len(imageElements)
    /\ success => ~CtxDone(Caller)
    /\ LET element == imageElements[Len(images) + 1]
           localPath == RelPath(element.BestURL)
       IN  /\ images' = Append(images, [OriginalURL |-> element.BestURL,
                                        LocalPath |-> localPath,
                                        Success |-> success])
           /\ urlToRelPath' = IF success
                              THEN MapAll(urlToRelPath, element.AllURLs, localPath)
                              ELSE urlToRelPath
    /\ UNCHANGED <<cfgVars, poolVars, docVars, assetVars, resumeVars, backoffVars, pureVars, doc, imageQuality, imageElements,
                   pending, rewritten, srcsetArg, srcsetRet, ctxVars, tokens, sem,
                   chanVars, workerRet, pc, fetchVars, callerResult>>

\* What the Each callbacks of ImageDownloader.updateHTMLWithLocalPaths do
\* to a node.
UpdateNode(n, m) ==
    LET lookup(u) == IF u \in DOMAIN m THEN m[u] ELSE u
    IN  CASE n.tag = "img" ->
                [n EXCEPT !.ref = lookup(@), !.data = lookup(@),
                          !.srcset = updateSrcsetAttribute(@, m)]
          [] n.tag = "a" -> [n EXCEPT !.ref = lookup(@)]
          [] n.tag = "source" -> [n EXCEPT !.srcset = updateSrcsetAttribute(@, m)]
          [] OTHER -> n

UpdateNodes(d, m) == [i \in 1..Len(d) |-> UpdateNode(d[i], m)]

\* The loop is over: the HTML is rewritten and the result returned.
RewriteReturn ==
    /\ callerKind = "DownloadImages"
    /\ pc[Caller] = "loop"
    /\ Len(images) = Len(imageElements)
    /\ rewritten' = UpdateNodes(doc, urlToRelPath)
    /\ callerResult' = "result"
    /\ pc' = [pc EXCEPT ![Caller] = "returned"]
    /\ UNCHANGED <<cfgVars, poolVars, docVars, assetVars, resumeVars, backoffVars, pureVars, doc, imageQuality, imageElements,
                   pending, images, urlToRelPath, srcsetArg, srcsetRet, ctxVars, tokens,
                   sem, chanVars, workerRet, fetchVars>>

NextImages ==
    \/ ExtractImgs
    \/ \E g \in 0..MaxNodes : AttachURL(g)
    \/ ExtractReturn
    \/ \E success \in BOOLEAN : DownloadImage(success)
    \/ RewriteReturn

SpecImages == InitImages /\ [][NextImages]_vars

\* ------------------------------------------- download: the archive branch
\* Strings are sequences of characters; a run of characters that no
\* function looks into is one element.
MaxArchive == 2

\* The slugs of the posts of a publication.
Slugs == {<<"a">>, <<"b">>, <<"a", "_", "b">>}

Formats == {"html", "md"}

\* The URL of the post of slug s as the sitemap gives it, with or without a
\* trailing slash.
PostURLs(s) ==
    {<<"https:", "/", "/", "x.substack.com", "/", "p", "/">> \o s \o t : t \in {<<>>, <<"/">>}}

\* The lists of post URLs GetAllPostsURLs can return: one URL per post.
Archives ==
    UNION {{q \in [1..n -> UNION {PostURLs(s) : s \in Slugs}] :
              \A i, j \in 1..n : i # j => ~\E s \in Slugs : {q[i], q[j]} \subseteq PostURLs(s)}
           : n \in 0..MaxArchive}

\* strings.Split(url, "/") and its last element.
extractSlug(url) ==
    LET slashes == {i \in 1..Len(url) : url[i] = "/"}
        last == IF slashes = {} THEN 0 ELSE CHOOSE i \in slashes : \A j \in slashes : j <= i
    IN  SubSeq(url, last + 1, Len(url))

\* The slug of the Post that ExtractPost reads from the page at url: the
\* path element after /p/.
SlugOf(url) == CHOOSE s \in Slugs : url \in PostURLs(s)

\* The date of every post, as convertDateTime formats it.
convertDateTime == <<"20230101", "_", "120000">>

\* The name, within the output folder, of the file of the post of slug s.
makePath(s, fmt) == convertDateTime \o <<"_">> \o s \o <<".", fmt>>

\* Sequence s ends with sequence t.
HasSuffix(s, t) ==
    /\ Len(s) >= Len(t)
    /\ SubSeq(s, Len(s) - Len(t) + 1, Len(s)) = t

\* filepath.Glob of *_<slug>.<format> in the output folder: the star stands
\* for any run of characters of a file name.
Glob(slug, fmt) == {name \in folder : HasSuffix(name, <<"_">> \o slug \o <<".", fmt>>)}

\* The URLs without a match, in their order.
filterExistingPosts(us, fmt) ==
    LET missing(url) == Glob(extractSlug(url), fmt) = {}
    IN  SelectSeq(us, missing)

\* One run of the download command on an archive after another, on one
\* output folder that starts empty.
InitArchive ==
    /\ InitCommon
    /\ NoAssets
    /\ NoImages
    /\ NoBackoff
    /\ NoPure
    /\ maxWorkers = 1
    /\ urls = <<>>
    /\ timed = FALSE
    /\ multiplex = FALSE
    /\ urlCh = <<>>
    /\ filter = "nil"
    /\ page = <<>>
    /\ callerKind = "download"
    /\ fileExists = FALSE
    /\ urlParses = TRUE
    /\ archive \in Archives
    /\ format \in Formats
    /\ folder = {}
    /\ filtered = <<>>
    /\ progress = {}
    /\ pc = [p \in Procs |-> IF p = Caller THEN "call" ELSE "idle"]

ArchiveFrame ==
    UNCHANGED <<cfgVars, poolVars, docVars, assetVars, imgVars, backoffVars, pureVars, ctxVars, tokens,
                sem, chanVars, workerRet, fetchVars, callerResult>>

\* GetAllPostsURLs has returned the archive; the list is filtered and
\* the command returns if nothing is left.
FilterExisting ==
    /\ callerKind = "download"
    /\ pc[Caller] = "call"
    /\ filtered' = filterExistingPosts(archive, format)
    /\ progress' = {}
    /\ pc' = [pc EXCEPT ![Caller] = IF filtered' = <<>> THEN "returned" ELSE "posts"]
    /\ UNCHANGED <<archive, format, folder>>
    /\ ArchiveFrame

\* One result of ExtractAllPosts, in any order: an error is skipped, a post
\* is written to its path unless the write fails.
HandleResult(i, ok) ==
    /\ callerKind = "download"
    /\ pc[Caller] = "posts"
    /\ i \in (1..Len(filtered)) \ progress
    /\ progress' = progress \cup {i}
    /\ folder' = IF ok THEN folder \cup {makePath(SlugOf(filtered[i]), format)} ELSE folder
    /\ UNCHANGED <<archive, format, filtered, pc>>
    /\ ArchiveFrame

\* The channel of results is closed.
ArchiveDone ==
    /\ callerKind = "download"
    /\ pc[Caller] = "posts"
    /\ progress = 1..Len(filtered)
    /\ pc' = [pc EXCEPT ![Caller] = "returned"]
    /\ UNCHANGED resumeVars
    /\ ArchiveFrame

\* The command is interrupted, or has returned, and is started again on the
\* same folder, in any format.
RunAgain ==
    /\ callerKind = "download"
    /\ pc[Caller] \in {"posts", "returned"}
    /\ format' \in Formats
    /\ filtered' = <<>>
    /\ progress' = {}
    /\ pc' = [pc EXCEPT ![Caller] = "call"]
    /\ UNCHANGED <<archive, folder>>
    /\ ArchiveFrame

NextArchive ==
    \/ FilterExisting
    \/ \E i \in 1..MaxArchive, ok \in BOOLEAN : HandleResult(i, ok)
    \/ ArchiveDone
    \/ RunAgain

SpecArchive == InitArchive /\ [][NextArchive]_vars

\* ------------------------------------- Fetcher: the BackOff it holds
\* Durations are in ticks. The multiplier of the policy is taken as 2 and
\* its randomisation is left out: NextBackOff returns currentInterval.
NumCalls == 2
MaxIntervalTicks == 4
MaxElapsedTicks == 5
MaxClock == 4

\* The FetchURL calls that run on the one Fetcher.
Calls == 1..NumCalls

\* NextBackOff's answer when the elapsed-time budget is spent.
Stop == -1

\* ExponentialBackOff.Reset.
Reset(b, t) == [currentInterval |-> InitialInterval, startTime |-> t]

\* ExponentialBackOff.incrementCurrentInterval: times the multiplier, capped.
incrementCurrentInterval(b) ==
    [b EXCEPT !.currentInterval = IF 2 * @ >= MaxIntervalTicks THEN MaxIntervalTicks ELSE 2 * @]

\* What ExponentialBackOff.NextBackOff returns at time t.
NextBackOff(b, t) ==
    LET elapsed == t - b.startTime
        next == b.currentInterval
    IN  IF elapsed + next > MaxElapsedTicks THEN Stop ELSE next

\* NumCalls concurrent FetchURL calls on a Fetcher made by NewFetcher, each
\* about to enter backoff.RetryNotify with f.BackoffCfg.
InitBackoff ==
    /\ InitCommon
    /\ NoAssets
    /\ NoImages
    /\ NoArchive
    /\ maxWorkers = NumCalls
    /\ urls = <<>>
    /\ timed = TRUE
    /\ multiplex = FALSE
    /\ urlCh = <<>>
    /\ filter = "nil"
    /\ page = <<>>
    /\ callerKind = "RetryNotify"
    /\ fileExists = FALSE
    /\ urlParses = TRUE
    /\ BackoffCfg = NewBackOff
    /\ clock = 0
    /\ interval = [p \in Procs |-> 0]
    /\ asked = [p \in Procs |-> 0]
    /\ began = [p \in Procs |-> 0]
    /\ NoPure
    /\ pc = [p \in Procs |-> IF p \in Calls THEN "call" ELSE "idle"]

BackoffFrame ==
    UNCHANGED <<cfgVars, poolVars, docVars, assetVars, imgVars, resumeVars, pureVars, ctxVars,
                tokens, sem, chanVars, workerRet, callerResult>>

\* RetryNotify of call p begins: b.Reset().
RetryBegin(p) ==
    /\ callerKind = "RetryNotify"
    /\ pc[p] = "call"
    /\ BackoffCfg' = Reset(BackoffCfg, clock)
    /\ began' = [began EXCEPT ![p] = clock]
    /\ pc' = [pc EXCEPT ![p] = "op"]
    /\ UNCHANGED <<clock, interval, asked, fetchVars>>
    /\ BackoffFrame

\* operation() of call p ends with an outcome of class k and RetryNotify
\* takes its step: it returns, or asks b.NextBackOff() and starts the timer.
RetryStep(p, k) ==
    /\ callerKind = "RetryNotify"
    /\ pc[p] = "op"
    /\ IF retryCounter[p] >= defaultMaxRetryCount \/ k # "retry"
       THEN /\ body' = [body EXCEPT ![p] = IF k = "done" THEN "open" ELSE "nil"]
            /\ err' = [err EXCEPT ![p] = IF k = "done" THEN "nil" ELSE "permanent"]
            /\ pc' = [pc EXCEPT ![p] = "returned"]
            /\ UNCHANGED <<BackoffCfg, interval, asked, retryCounter, attempts, timer>>
       ELSE /\ retryCounter' = [retryCounter EXCEPT ![p] = @ + 1]
            /\ attempts' = [attempts EXCEPT ![p] = @ + 1]
            /\ err' = [err EXCEPT ![p] = "tooMany"]
            /\ interval' = [interval EXCEPT ![p] = NextBackOff(BackoffCfg, clock)]
            /\ asked' = [asked EXCEPT ![p] = clock]
            /\ BackoffCfg' = incrementCurrentInterval(BackoffCfg)
            /\ timer' = [timer EXCEPT ![p] = IF interval'[p] = Stop THEN 0 ELSE interval'[p]]
            /\ pc' = [pc EXCEPT ![p] = IF interval'[p] = Stop THEN "returned" ELSE "backoff"]
            /\ UNCHANGED body
    /\ UNCHANGED <<clock, began, retryAfter, slept>>
    /\ BackoffFrame

\* The timer of call p has fired: operation() is called again.
RetryWake(p) ==
    /\ callerKind = "RetryNotify"
    /\ pc[p] = "backoff"
    /\ timer[p] = 0
    /\ pc' = [pc EXCEPT ![p] = "op"]
    /\ UNCHANGED <<backoffVars, pureVars, fetchVars>>
    /\ BackoffFrame

\* One tick: the running timers run down.
ClockTick ==
    /\ callerKind = "RetryNotify"
    /\ clock < MaxClock
    /\ clock' = clock + 1
    /\ timer' = [p \in Procs |-> IF pc[p] = "backoff" /\ timer[p] > 0 THEN timer[p] - 1 ELSE timer[p]]
    /\ UNCHANGED <<BackoffCfg, interval, asked, began, pc,
                   retryCounter, attempts, err, body, retryAfter, slept>>
    /\ BackoffFrame

NextBackoff ==
    \/ \E p \in Calls : RetryBegin(p)
    \/ \E p \in Calls, k \in {"done", "retry", "permanent"} : RetryStep(p, k)
    \/ \E p \in Calls : RetryWake(p)
    \/ ClockTick

SpecBackoff == InitBackoff /\ [][NextBackoff]_vars

\* ------------------------------------------ functions called on their own
\* Strings are sequences of characters.
MaxHeader == 3

\* The characters a header value is made of here.
HeaderChars == {"0", "1", "7", "-", "+", "x", " "}

Headers == UNION {[1..n -> HeaderChars] : n \in 0..MaxHeader}

DigitValue(c) == CASE c = "0" -> 0 [] c = "1" -> 1 [] c = "7" -> 7 [] OTHER -> -1

\* The number the digits of s write, s a sequence of digits.
RECURSIVE DigitsValue(_)
DigitsValue(s) ==
    IF s = <<>> THEN 0 ELSE 10 * DigitsValue(SubSeq(s, 1, Len(s) - 1)) + DigitValue(s[Len(s)])

\* strconv.Atoi(s) as <<ok, value>>: an optional sign, then one digit or
\* more and nothing else.
strconvAtoi(s) ==
    LET signed == s # <<>> /\ s[1] \in {"+", "-"}
        digits == IF signed THEN Tail(s) ELSE s
        ok == digits # <<>> /\ \A i \in 1..Len(digits) : DigitValue(digits[i]) >= 0
    IN  IF ~ok THEN <<FALSE, 0>>
        ELSE <<TRUE, IF signed /\ s[1] = "-" THEN 0 - DigitsValue(digits) ELSE DigitsValue(digits)>>

\* Mutant of fetchResponse: a 429 whose header does not parse is an error
\* of another kind.
fetchResponseStrict(status, h) ==
    IF status = 200 THEN [body |-> "open", TooManyRequests |-> FALSE, RetryAfter |-> 0, StatusCode |-> 0]
    ELSE IF status = 429 /\ (h = <<>> \/ strconvAtoi(h)[1])
    THEN [body |-> "nil", TooManyRequests |-> TRUE,
          RetryAfter |-> IF h # <<>> THEN strconvAtoi(h)[2] ELSE defaultRetryAfter,
          StatusCode |-> status]
    ELSE [body |-> "nil", TooManyRequests |-> FALSE, RetryAfter |-> 0, StatusCode |-> status]

\* What fetch returns for a response of the given status whose Retry-After
\* header is h (<<>>: no header): the body, or the fields of the FetchError.
fetchResponse(status, h) ==
    IF status = 200 THEN [body |-> "open", TooManyRequests |-> FALSE, RetryAfter |-> 0, StatusCode |-> 0]
    ELSE IF status = 429
    THEN [body |-> "nil", TooManyRequests |-> TRUE,
          RetryAfter |-> IF h # <<>> /\ strconvAtoi(h)[1] THEN strconvAtoi(h)[2] ELSE defaultRetryAfter,
          StatusCode |-> status]
    ELSE [body |-> "nil", TooManyRequests |-> FALSE, RetryAfter |-> 0, StatusCode |-> status]

\* ------------------------------------------------------- file names
\* A file name, or the path of a URL, is a sequence of runs <<c, n>>: n
\* characters of kind c.  "/" is the slash, "\\" stands for each of the
\* characters < > : " \ | ? * , "." is the dot, " " the space, "_" the
\* underscore; every other kind is a run of letters and digits.  No two
\* neighbours are of one kind.
MaxRuns == 3

Runs == ({"a", "/", "\\", ".", " ", "_"} \X {1, 2}) \cup ({"a"} \X {199, 200})

Strings == {s \in UNION {[1..n -> Runs] : n \in 0..MaxRuns} :
               \A i \in 1..(Len(s) - 1) : s[i][1] # s[i + 1][1]}

\* len(s).
RECURSIVE StrLen(_)
StrLen(s) == IF s = <<>> THEN 0 ELSE Head(s)[2] + StrLen(Tail(s))

\* s with neighbouring runs of one kind made one run.
RECURSIVE Norm(_)
Norm(s) ==
    IF Len(s) <= 1 THEN s
    ELSE LET rest == Norm(Tail(s))
         IN  IF Head(s)[1] = Head(rest)[1]
             THEN <<<<Head(s)[1], Head(s)[2] + Head(rest)[2]>>>> \o Tail(rest)
             ELSE <<Head(s)>> \o rest

\* regexp [<>:"/\\|?*] ReplaceAllString(s, "_").
ReplaceUnsafe(s) ==
    Norm([i \in 1..Len(s) |-> IF s[i][1] \in {"/", "\\"} THEN <<"_", s[i][2]>> ELSE s[i]])

\* strings.Trim(s, cutset).
RECURSIVE TrimLeft(_, _)
TrimLeft(s, cutset) ==
    IF s # <<>> /\ Head(s)[1] \in cutset THEN TrimLeft(Tail(s), cutset) ELSE s

RECURSIVE TrimRight(_, _)
TrimRight(s, cutset) ==
    IF s # <<>> /\ s[Len(s)][1] \in cutset THEN TrimRight(SubSeq(s, 1, Len(s) - 1), cutset) ELSE s

Trim(s, cutset) == TrimRight(TrimLeft(s, cutset), cutset)

\* s[:k].
RECURSIVE Prefix(_, _)
Prefix(s, k) ==
    IF k <= 0 \/ s = <<>> THEN <<>>
    ELSE IF Head(s)[2] <= k THEN <<Head(s)>> \o Prefix(Tail(s), k - Head(s)[2])
    ELSE <<<<Head(s)[1], k>>>>

\* The index of the last run of kind c in s, 0 if there is none.
LastRun(s, c) ==
    LET at == {i \in 1..Len(s) : s[i][1] = c}
    IN  IF at = {} THEN 0 ELSE CHOOSE i \in at : \A j \in at : j <= i

\* filepath.Ext(name): from the last dot on.
FileExt(name) ==
    LET i == LastRun(name, ".")
    IN  IF i = 0 \/ LastRun(name, "/") > i THEN <<>>
        ELSE <<<<".", 1>>>> \o SubSeq(name, i + 1, Len(name))

\* strings.TrimSuffix(name, filepath.Ext(name)).
TrimExt(name) ==
    LET i == LastRun(name, ".")
    IN  IF FileExt(name) = <<>> THEN name
        ELSE SubSeq(name, 1, i - 1) \o (IF name[i][2] > 1 THEN <<<<".", name[i][2] - 1>>>> ELSE <<>>)

\* filepath.Base(path).
Base(path) ==
    LET stripped == TrimRight(path, {"/"})
    IN  IF path = <<>> THEN <<<<".", 1>>>>
        ELSE IF stripped = <<>> THEN <<<<"/", 1>>>>
        ELSE SubSeq(stripped, LastRun(stripped, "/") + 1, Len(stripped))

ImageJpg == <<<<"image", 5>>, <<".", 1>>, <<"jpg", 3>>>>

\* The name made of a match of ([a-f0-9-]{36})_(\d+x\d+)\.(jpeg|jpg|png|webp).
MatchName == <<<<"id", 8>>, <<"_", 1>>, <<"x", 3>>, <<".", 1>>, <<"png", 3>>>>

\* Mutant of sanitizeFilename: the name is not cut.
sanitizeFilenameUncut(filename) ==
    LET safe == Trim(ReplaceUnsafe(filename), {" ", "."})
    IN  IF safe = <<>> THEN <<<<"attachment", 10>>>> ELSE safe

\* FileDownloader.sanitizeFilename.
sanitizeFilename(filename) ==
    LET safe == Trim(ReplaceUnsafe(filename), {" ", "."})
        named == IF safe = <<>> THEN <<<<"attachment", 10>>>> ELSE safe
    IN  IF StrLen(named) > 200 THEN Prefix(named, 200) ELSE named

\* ImageDownloader.generateSafeFilename of a URL that parses: Path is its
\* path, substack says that the URL contains "substack", embedded that the
\* pattern of MatchName matches it.
generateSafeFilename(u) ==
    LET base == Base(u.Path)
        filename == IF base \in {<<>>, <<<<"/", 1>>>>, <<<<".", 1>>>>}
                    THEN IF u.substack /\ u.embedded THEN MatchName ELSE ImageJpg
                    ELSE base
        cleaned == ReplaceUnsafe(filename)
        valid == IF cleaned \in {<<>>, <<<<"_", 1>>>>, <<<<"_", 2>>>>} THEN ImageJpg ELSE cleaned
        ext == FileExt(valid)
    IN  IF StrLen(valid) > 200
        THEN IF StrLen(ext) < 200 THEN Prefix(TrimExt(valid), 200 - StrLen(ext)) \o ext
             ELSE ImageJpg
        ELSE valid

\* The URLs of images.
ImageURLs == [Path : Strings, substack : BOOLEAN, embedded : BOOLEAN]

\* ------------------------------------------------------- local paths
\* The post identifiers: letters, slashes and dots.
MaxSlugRuns == 3

SlugRuns == ({"a", "b", "/"} \X {1}) \cup ({"."} \X {1, 2})

PostSlugs == {s \in UNION {[1..n -> SlugRuns] : n \in 0..MaxSlugRuns} :
                 \A i \in 1..(Len(s) - 1) : s[i][1] # s[i + 1][1]}

\* The paths of the URLs of assets: / , /n , /d/ and /d/n , where n is a
\* name or dots.
LastElems == {<<<<"a", 1>>>>, <<<<"b", 1>>>>, <<<<".", 1>>>>, <<<<".", 2>>>>}

Paths ==
    LET Slash == <<<<"/", 1>>>>
        Dirs == {Slash \o <<<<d, 1>>>> \o Slash : d \in {"a", "b"}}
    IN  {Slash} \cup Dirs \cup {dir \o n : dir \in {Slash} \cup Dirs, n \in LastElems}

\* The URLs of assets: the first four bytes (of the scheme), the path, the
\* filename parameter of the query; how ImageURLs sees them.
AssetURLs == [first : {"http", "ftp:"}, Path : Paths, filename : {<<>>, <<<<"b", 1>>>>}]

AsImageURL(u) == [Path |-> u.Path, substack |-> FALSE, embedded |-> FALSE]

\* FileDownloader.extractFilenameFromURL of a URL that parses.
FilenameFromURL(u) ==
    LET path == u.Path
        lastSlash == LastRun(path, "/")
        filename == SubSeq(path, lastSlash + 1, Len(path))
    IN  IF /\ path # <<>> /\ path # <<<<"/", 1>>>>
           /\ lastSlash >= 1 /\ lastSlash < Len(path)
           /\ filename # <<<<".", 1>>>>
        THEN filename
        ELSE u.filename

\* FileDownloader.generateSafeFilename at time t: file_<t>_<the first
\* eight hexadecimal digits of the bytes of the URL>.
GeneratedName(u, t) ==
    <<<<"file", 4>>, <<"_", 1>>, <<(IF t = 0 THEN "time0" ELSE "time1"), 10>>, <<"_", 1>>,
      <<(IF u.first = "http" THEN "68747470" ELSE "6674703a"), 8>>>>

\* The file name downloadSingleFile (at time t) and downloadSingleImage
\* give the asset of URL u.
LocalName(caller, u, t) ==
    IF caller = "DownloadFiles"
    THEN sanitizeFilename(IF FilenameFromURL(u) = <<>> THEN GeneratedName(u, t)
                          ELSE FilenameFromURL(u))
    ELSE generateSafeFilename(AsImageURL(u))

\* A path as the list of its elements: strings.Split(s, "/").
RECURSIVE Split(_)
Split(s) ==
    LET i == LastRun(s, "/")
    IN  IF i = 0 THEN <<s>>
        ELSE Split(SubSeq(s, 1, i - 1)) \o [k \in 1..(s[i][2] - 1) |-> <<>>]
                 \o <<SubSeq(s, i + 1, Len(s))>>

\* filepath.Clean of a relative path given by its elements.
RECURSIVE Clean(_, _)
Clean(elems, done) ==
    IF elems = <<>> THEN done
    ELSE LET e == Head(elems)
         IN  IF e = <<>> \/ e = <<<<".", 1>>>> THEN Clean(Tail(elems), done)
             ELSE IF e = <<<<".", 2>>>>
             THEN IF done # <<>> /\ done[Len(done)] # <<<<".", 2>>>>
                  THEN Clean(Tail(elems), SubSeq(done, 1, Len(done) - 1))
                  ELSE Clean(Tail(elems), Append(done, e))
             ELSE Clean(Tail(elems), Append(done, e))

\* filepath.Join(dir, name), dir clean.
Join(dir, name) == Clean(Split(name), dir)

\* outputDir and the directory of the assets in it.
AssetsDir(caller) ==
    <<<<<<"out", 3>>>>, <<<<(IF caller = "DownloadFiles" THEN "files" ELSE "images"), 5>>>>>>

\* path is dir or a directory above it.
IsPrefix(path, dir) == Len(path) <= Len(dir) /\ SubSeq(dir, 1, Len(path)) = path

\* What DownloadImages and DownloadFiles do for one asset of the post of
\* slug postSlug: the directory they make, the local path of the asset,
\* and whether os.Create can create it (it cannot where a directory is).
AssetPath(caller, postSlug, u, t) ==
    LET dir == Join(AssetsDir(caller), postSlug)
        localPath == Join(dir, LocalName(caller, u, t))
    IN  [dir |-> dir, localPath |-> localPath, created |-> ~IsPrefix(localPath, dir)]

\* A srcset with a pixel density and no width.
DensityOnly == [sep |-> ", ", entries |-> <<[url |-> "Aw", desc |-> "2x"]>>]

\* The img elements extractImageElements is called on: their srcset has
\* widths, a relative URL, a pixel density, or is missing.
ImgArgs ==
    [tag : {"img"}, ref : {"", "A", "Aw", "B"}, data : {"", "A", "B"},
     srcset : {NoSrcset, TwoWidths, WithRelative, DensityOnly}]

\* The target widths extractURLFromSrcset is called with: those of
\* getTargetWidth, one below and one above every width of a descriptor.
TargetWidths == {100, 424, 848, 1456, 2000}

\* The functions called on their own, and the arguments of each.
PureArgs(kind) ==
    CASE kind = "fetch" -> [status : {200, 404, 429}, header : Headers]
      [] kind = "sanitizeFilename" -> Strings
      [] kind = "generateSafeFilename" -> ImageURLs
      [] kind = "localPath" ->
            {a \in [caller : {"DownloadImages", "DownloadFiles"}, postSlug : {<<<<"a", 1>>>>},
                    u1 : AssetURLs, u2 : AssetURLs, t1 : 0..MaxNow, t2 : 0..MaxNow] :
                a.u1 # a.u2 /\ a.t1 <= a.t2 /\ a.u1.first = "http"}
            \cup [caller : {"DownloadImages", "DownloadFiles"}, postSlug : PostSlugs,
                  u1 : AssetURLs, u2 : {<<>>}, t1 : {0}, t2 : {0}]
      [] kind = "isSameImage" -> [url1 : HttpURLs \cup {"rel"}, url2 : HttpURLs \cup {"rel"}]
      [] kind = "extractURLFromSrcset" -> [srcset : Srcsets, targetWidth : TargetWidths]
      [] kind = "extractImageElements" -> UNION {[1..n -> ImgArgs] : n \in 1..MaxNodes}
      [] OTHER -> {}

InitPure ==
    /\ InitCommon
    /\ NoAssets
    /\ doc = <<>>
    /\ imageElements = <<>>
    /\ pending = <<>>
    /\ images = <<>>
    /\ urlToRelPath = NoMap
    /\ rewritten = <<>>
    /\ srcsetArg = NoSrcset
    /\ srcsetRet = NoSrcset
    /\ NoArchive
    /\ NoBackoff
    /\ maxWorkers = 1
    /\ urls = <<>>
    /\ timed = FALSE
    /\ multiplex = FALSE
    /\ urlCh = <<>>
    /\ filter = "nil"
    /\ page = <<>>
    /\ callerKind \in {"fetch", "sanitizeFilename", "generateSafeFilename", "localPath",
                       "isSameImage", "extractURLFromSrcset", "extractImageElements"}
    /\ fileExists = FALSE
    /\ urlParses = TRUE
    /\ imageQuality \in IF callerKind = "extractImageElements" THEN {"high", "low"} ELSE {"high"}
    /\ arg \in PureArgs(callerKind)
    /\ ret = <<>>
    /\ pc = [p \in Procs |-> IF p = Caller THEN "call" ELSE "idle"]

PureFrame ==
    UNCHANGED <<cfgVars, poolVars, docVars, assetVars, imgVars, resumeVars, backoffVars, arg,
                ctxVars, tokens, sem, chanVars, workerRet, fetchVars, callerResult>>

\* The response has arrived and fetch returns.
FetchResponse ==
    /\ callerKind = "fetch"
    /\ pc[Caller] = "call"
    /\ ret' = <<fetchResponse(arg.status, arg.header)>>
    /\ pc' = [pc EXCEPT ![Caller] = "returned"]
    /\ PureFrame

\* A sanitizer is called on a name, or on a URL, and returns.
Sanitize ==
    /\ callerKind \in {"sanitizeFilename", "generateSafeFilename"}
    /\ pc[Caller] = "call"
    /\ ret' = <<IF callerKind = "sanitizeFilename" THEN sanitizeFilename(arg)
                ELSE generateSafeFilename(arg)>>
    /\ pc' = [pc EXCEPT ![Caller] = "returned"]
    /\ PureFrame

\* The assets of a post get their local paths: one asset, or two of
\* different URLs one after the other.
LocalPaths ==
    /\ callerKind = "localPath"
    /\ pc[Caller] = "call"
    /\ ret' = IF arg.u2 = <<>>
              THEN <<AssetPath(arg.caller, arg.postSlug, arg.u1, arg.t1)>>
              ELSE <<AssetPath(arg.caller, arg.postSlug, arg.u1, arg.t1),
                     AssetPath(arg.caller, arg.postSlug, arg.u2, arg.t2)>>
    /\ pc' = [pc EXCEPT ![Caller] = "returned"]
    /\ PureFrame

\* isSameImage is called on two URLs and returns.
SameImage ==
    /\ callerKind = "isSameImage"
    /\ pc[Caller] = "call"
    /\ ret' = <<isSameImage(arg.url1, arg.url2)>>
    /\ pc' = [pc EXCEPT ![Caller] = "returned"]
    /\ PureFrame

\* extractURLFromSrcset is called on a srcset and a target width and
\* returns.
SelectFromSrcset ==
    /\ callerKind = "extractURLFromSrcset"
    /\ pc[Caller] = "call"
    /\ ret' = <<extractURLFromSrcset(arg.srcset, arg.targetWidth)>>
    /\ pc' = [pc EXCEPT ![Caller] = "returned"]
    /\ PureFrame

\* The loop of extractImageElements over the img elements of a document
\* is run.
ExtractGroups ==
    /\ callerKind = "extractImageElements"
    /\ pc[Caller] = "call"
    /\ ret' = <<ImgElements(arg, <<>>)>>
    /\ pc' = [pc EXCEPT ![Caller] = "returned"]
    /\ PureFrame

NextPure ==
    \/ FetchResponse
    \/ Sanitize
    \/ LocalPaths
    \/ SameImage
    \/ SelectFromSrcset
    \/ ExtractGroups

SpecPure == InitPure /\ [][NextPure]_vars

\* A step of worker w of ExtractAllPosts.
PoolStep(w) ==
    \/ Pull(w)
    \/ FetchStep(w)
    \/ ConnGranted(w)
    \/ DialCancelled(w)
    \/ Deliver(w)

NextExtract ==
    \/ \E w \in Pool : PoolStep(w)
    \/ ExtractClose
    \/ Receive
    \/ Cancel
    \/ Refill

SpecExtract == InitExtract /\ [][NextExtract]_vars

\* The workers are scheduled fairly, the limiter refills and timers fire;
\* the consumer and the owner of the context owe nothing.
FairSpecExtract ==
    /\ SpecExtract
    /\ \A w \in 1..NumPosts : WF_vars(w \in Pool /\ PoolStep(w))
    /\ WF_vars(ExtractClose)
    /\ WF_vars(Refill)

\* ------------------------------------------------------------- properties
\* The bag of the elements of sequence q.
RECURSIVE BagOfSeq(_)
BagOfSeq(q) == IF q = <<>> THEN EmptyBag ELSE SetToBag({Head(q)}) (+) BagOfSeq(Tail(q))

\* The results handed over so far, received or still in the buffer.
Delivered == received (+) BagOfSeq(results)

\* The part of bag B whose elements satisfy Test.
BagFilter(B, Test(_)) == [r \in {x \in BagToSet(B) : Test(x)} |-> B[r]]

\* How many results of bag B satisfy Test.
HowMany(B, Test(_)) == BagCardinality(BagFilter(B, Test))

\* How many of the results handed over come from the goroutine of urls[i].
CountOf(i) == LET From(r) == r.id = i IN HowMany(Delivered, From)

\* Goroutines between acquiring the semaphore and returning.
Holders == {i \in Workers : pc[i] \in {"op", "wait", "inflight", "backoff", "send"}}

\* Goroutines with an HTTP request in flight.
InFlight == {i \in Workers : pc[i] = "inflight"}

\* C1: within one FetchURLs call the goroutines holding a semaphore slot,
\* and so the HTTP requests in flight, never number more than MaxWorkers.
C1_ConcurrencyCap ==
    /\ Cardinality(Holders) <= maxWorkers
    /\ Cardinality(InFlight) <= maxWorkers
    /\ sem = Cardinality(Holders)

\* C1 witness: every slot is taken by a request in flight while another
\* goroutine waits for the semaphore.
C1_Witness ==
    /\ Cardinality(InFlight) = maxWorkers
    /\ \E i \in Workers : pc[i] = "acquire"

\* C2: when the channel is closed and the context was never cancelled,
\* exactly one result per element of urls has been handed over, carrying
\* that element's URL (so the URLs delivered are the multiset of urls);
\* for an empty list the channel is closed with no result.
C2_OneResultPerURL ==
    (closed /\ ~ctxCancelled) =>
        /\ BagCardinality(Delivered) = Len(urls)
        /\ \A i \in Workers : CountOf(i) = 1
        /\ \A r \in BagToSet(Delivered) : r.Url = urls[r.id]
        /\ \A u \in {"a", "b"} :
              LET HasUrl(r) == r.Url = u IN
              HowMany(Delivered, HasUrl) = Cardinality({i \in Workers : urls[i] = u})

\* C2 witness: the consumer has drained a closed channel of a list with a
\* repeated URL, without any cancellation.
C2_Witness ==
    /\ closed /\ ~ctxCancelled /\ results = <<>>
    /\ Len(urls) = NumURLs
    /\ BagCardinality(received) = NumURLs

\* The results handed over that carry an error, and those that carry none.
Failures == LET Failed(r) == r.Error # "nil" IN HowMany(Delivered, Failed)
Successes == LET Succeeded(r) == r.Error = "nil" IN HowMany(Delivered, Succeeded)

\* C3: a failed fetch is reported in the result of its own URL and nowhere
\* else: every result handed over carries the outcome of its own FetchURL
\* call, a body exactly when that call succeeded; the group's context is
\* cancelled only by the caller's cancellation or by the final Wait; and
\* without cancellation the closed channel has delivered one result per
\* URL, as many failures as fetches failed and as many successes as
\* fetches succeeded.
C3_FailureIsolated ==
    /\ \A r \in BagToSet(Delivered) :
            /\ r.Error = err[r.id]
            /\ r.Url = urls[r.id]
            /\ (r.Body = "open") <=> (r.Error = "nil")
    /\ groupCancelled => (ctxCancelled \/ closed)
    /\ ~ctxCancelled => \A i \in Workers : workerRet[i] # "ctx"
    /\ (closed /\ ~ctxCancelled) =>
          /\ BagCardinality(Delivered) = Len(urls)
          /\ Failures = Cardinality({i \in Workers : err[i] # "nil"})
          /\ Successes = Cardinality({i \in Workers : err[i] = "nil"})

\* C3 witness: of three URLs two were answered with an error status and
\* one with 200, and the consumer holds two failures and one success.
C3_Witness ==
    /\ closed /\ ~ctxCancelled /\ results = <<>>
    /\ BagCardinality(received) = 3
    /\ LET NotFound(r) == r.Error = "status"
           Fetched(r) == r.Error = "nil" /\ r.Body = "open"
       IN HowMany(received, NotFound) = 2 /\ HowMany(received, Fetched) = 1

\* Process p is back from FetchURL.
Returned(p) == pc[p] \in {"returned", "send", "done"}

\* C4: an attempt that ends with a non-200, non-429 status or with a
\* transport error ends the call with that error and no body; a retry wait
\* only ever follows a 429, so every attempt but the last of a call was
\* answered 429.
C4_NonRetryableTerminal ==
    \A p \in Procs :
        /\ err[p] \in {"status", "transport"} => (Returned(p) /\ body[p] = "nil")
        /\ pc[p] = "backoff" => err[p] = "tooMany"
        /\ attempts[p] <= retryCounter[p] + 1

\* C4 witness: the second attempt of a call, made after a 429, was answered
\* with an error status and the call returned it.
C4_Witness ==
    /\ pc[Caller] = "returned"
    /\ err[Caller] = "status"
    /\ attempts[Caller] = 2

\* C5: one FetchURL call issues at most defaultMaxRetryCount requests; a
\* call whose every attempt was answered 429 returns no body and one of
\* the errors "max retry count reached", the 429 error (backoff budget
\* spent) or the context error; with the counter at the maximum it is one
\* of the first two, and "max retry count reached" is returned only then.
C5_RetryCap ==
    LET p == Caller IN
    /\ attempts[p] <= defaultMaxRetryCount
    /\ retryCounter[p] <= defaultMaxRetryCount
    /\ (Returned(p) /\ attempts[p] >= 1 /\ retryCounter[p] = attempts[p]) =>
          (err[p] \in {"maxRetry", "tooMany", "ctx"} /\ body[p] = "nil")
    /\ (Returned(p) /\ retryCounter[p] = defaultMaxRetryCount) =>
          err[p] \in {"maxRetry", "tooMany"}
    /\ err[p] = "maxRetry" =>
          (retryCounter[p] = defaultMaxRetryCount /\ attempts[p] = defaultMaxRetryCount)

\* C5 witness: ten attempts, all answered 429, and the call failed with
\* "max retry count reached".
C5_Witness ==
    /\ pc[Caller] = "returned"
    /\ err[Caller] = "maxRetry"
    /\ attempts[Caller] = defaultMaxRetryCount

\* C6 (as claimed): the attempt that follows a 429 is not started before
\* the Retry-After time of that 429 has elapsed.
C6_RetryAfterHonoured ==
    [][\A p \in Procs :
         (pc[p] = "backoff" /\ attempts'[p] > attempts[p]) => slept[p] >= retryAfter[p]]_vars

\* C7 (as claimed): every function built on FetchURL, invoked with a
\* context that is already cancelled, returns a context error and issues
\* no HTTP request.
C7_AlwaysContextError ==
    (initCancelled /\ pc[Caller] = "done") =>
        (callerResult = "ctx" /\ attempts[Caller] = 0)

\* C7 (amended): invoked with a context that is already cancelled, no
\* function issues an HTTP request; FetchURL returns the context error and
\* no body, and its callers return that error, except that
\* downloadSingleFile reports success when its target file exists and
\* GetAllPostsURLs returns the parse error of an unparsable publication URL.
C7_CancelledBeforeCall ==
    initCancelled =>
        /\ attempts[Caller] = 0
        /\ pc[Caller] \in {"call", "op", "returned", "done"}
        /\ pc[Caller] = "returned" => (err[Caller] = "ctx" /\ body[Caller] = "nil")
        /\ pc[Caller] = "done" =>
              callerResult = (IF BeforeFetch # "" THEN BeforeFetch ELSE "ctx")

\* C7 witness: ExtractPost, called with a cancelled context, has returned
\* the context error.
C7_Witness ==
    /\ initCancelled
    /\ callerKind = "ExtractPost"
    /\ pc[Caller] = "done"
    /\ callerResult = "ctx"

\* C8: once the caller's context is cancelled no process issues another
\* HTTP request, from wherever it waits (semaphore, limiter, backoff), and
\* a call that ended with the context error has returned: it is not
\* retried.
C8_NoRequestAfterCancel ==
    /\ [](\A p \in Procs : err[p] = "ctx" => Returned(p))
    /\ [][ctxCancelled =>
            \A p \in Procs :
                /\ attempts'[p] <= attempts[p]
                /\ pc[p] # "inflight" => pc'[p] # "inflight"]_vars

\* C8 witness: after a cancellation that came during the run, one
\* goroutine is back from FetchURL with the context error and another gave
\* up waiting for the semaphore.
C8_Witness ==
    /\ ctxCancelled /\ ~initCancelled
    /\ \E i \in Workers : pc[i] = "send" /\ err[i] = "ctx"
    /\ \E j \in Workers : pc[j] = "done" /\ workerRet[j] = "ctx" /\ CountOf(j) = 0

\* C9 (as claimed): at every suspension point a process whose context is
\* done can leave at once with the context error; in the backoff sleep the
\* only way out is the call of operation() that follows the sleep.
C9_SuspensionObservesCancel ==
    \A p \in Procs :
        CtxDone(p) =>
            CASE pc[p] = "acquire" -> ENABLED AcquireCancelled(p)
              [] pc[p] = "wait" -> ENABLED WaitCancelled(p)
              [] pc[p] = "inflight" -> ENABLED ResponseCancelled(p)
              [] pc[p] = "backoff" -> ENABLED TimerFired(p)
              [] OTHER -> TRUE

\* C10: after the context is cancelled every goroutine returns and the
\* results channel is closed, whatever the consumer does.
C10_DrainsAfterCancel == ctxCancelled ~> (closed /\ AllReturned)

\* C10 witness: the channel was closed after a cancellation with its
\* buffer full and nothing received, a goroutine having given up.
C10_Witness ==
    /\ closed /\ ctxCancelled
    /\ received = EmptyBag
    /\ Len(results) = ResultsCap
    /\ ResultsCap < Len(urls)
    /\ \E i \in Workers : workerRet[i] = "ctx" /\ body[i] = "closed"

\* How many results the consumer has received from the goroutine of urls[i].
ReceivedOf(i) == LET From(r) == r.id = i IN HowMany(received, From)

\* C11 (as claimed): by the time the results channel is closed, every
\* response body a goroutine obtained has been received by the consumer or
\* has been closed.
C11_NoBodyLeaked ==
    closed => \A i \in Workers : body[i] = "open" => ReceivedOf(i) = 1

\* The processes that start an HTTP attempt in this step.
Started == {p \in Procs : attempts'[p] > attempts[p]}

\* C12: every HTTP attempt, first or retry, takes its own token from the
\* limiter: a step starts at most one attempt, and that step removes one
\* token from a bucket that held one; a request gets in flight only by
\* such a step; the bucket never holds more than the burst and grows only
\* by the limiter's refill, one token at a time.
C12_TokenPerAttempt ==
    /\ [](tokens \in 0..Burst)
    /\ [][/\ Cardinality(Started) <= 1
          /\ \A p \in Started :
                /\ attempts'[p] = attempts[p] + 1
                /\ tokens > 0
                /\ tokens' = tokens - 1
          /\ \A p \in Procs : (pc[p] # "inflight" /\ pc'[p] = "inflight") => p \in Started
          /\ tokens' < tokens => (tokens' = tokens - 1 /\ \E p \in Procs : pc[p] # pc'[p])
          /\ tokens' > tokens => tokens' = tokens + 1]_vars

\* C12 witness: the second attempt of a URL is in flight, having emptied
\* the bucket, while another goroutine waits for a token.
C12_Witness ==
    /\ tokens = 0
    /\ \E i \in Workers : pc[i] = "inflight" /\ attempts[i] = 2 /\ retryCounter[i] = 1
    /\ \E j \in Workers : pc[j] = "wait"

\* The requests of the Fetcher on the wire, whoever made them.
AllInFlight == {p \in Procs : pc[p] = "inflight"}

\* C13 (as claimed): over all users of one Fetcher the HTTP requests in
\* flight never number more than MaxWorkers.
C13_InFlightWithinLimit == Cardinality(AllInFlight) <= maxWorkers

\* The indices of urls.
UrlIds == 1..Len(urls)

\* The workers of ExtractAllPosts inside ExtractPost (its FetchURL call and
\* what follows it, up to the send of the result).
Busy == {w \in Procs : pc[w] \in {"op", "wait", "dial", "inflight", "backoff", "returned"}}

\* How often URL j is waiting in urlCh, and how many workers extract it.
Queued(j) == Cardinality({k \in 1..Len(urlCh) : urlCh[k] = j})
Extracting(j) == Cardinality({w \in Busy : job[w] = j})

\* C14: when the channel of ExtractAllPosts is closed and the context was
\* never cancelled, every URL of the list has been taken from the queue and
\* has yielded exactly one ExtractResult, which carries a Post or an error
\* (never a Post together with an error); a failed URL does not keep the
\* other URLs from being extracted; for an empty list the channel is
\* closed with no result.
C14_OneResultPerPost ==
    /\ \A r \in BagToSet(Delivered) :
          /\ r.id \in UrlIds
          /\ r.Err # "nil" => r.Post = "zero"
    /\ (closed /\ ~ctxCancelled) =>
          /\ urlCh = <<>>
          /\ BagCardinality(Delivered) = Len(urls)
          /\ \A j \in UrlIds : CountOf(j) = 1

\* C14 witness: of two URLs one was answered with an error status and one
\* yielded a Post, and the consumer holds both results of the closed
\* channel.
C14_Witness ==
    /\ closed /\ ~ctxCancelled /\ results = <<>>
    /\ Len(urls) = 2
    /\ LET Failed(r) == r.Err = "status" /\ r.Post = "zero"
           Extracted(r) == r.Err = "nil" /\ r.Post = "post"
       IN HowMany(received, Failed) = 1 /\ HowMany(received, Extracted) = 1

\* C15: the pool size computed for a list of n URLs is min(10, n);
\* ExtractAllPosts runs min(10, len(urls)) workers and only they work, so at most that many ExtractPost calls are in progress; every URL
\* is at any time in exactly one place (in the queue, with exactly one
\* worker, or delivered as one result) unless it was dropped after a
\* cancellation, so no URL is extracted twice.
C15_PoolPartition ==
    /\ \A n \in 0..MaxPostList : WorkerCount(n) = min(10, n)
    /\ Cardinality(Pool) = min(10, Len(urls))
    /\ Busy \subseteq Pool
    /\ Cardinality(Busy) <= min(10, Len(urls))
    /\ \A w \in Procs \ Pool : pc[w] = "idle"
    /\ \A w \in Busy : job[w] \in UrlIds
    /\ \A j \in UrlIds :
          /\ Queued(j) + Extracting(j) + CountOf(j) <= 1
          /\ ~ctxCancelled => Queued(j) + Extracting(j) + CountOf(j) = 1

\* C15 witness: both workers of a two-URL call are extracting, each its
\* own URL, and the queue is empty.
C15_Witness ==
    /\ Len(urls) = 2
    /\ pc[1] = "inflight" /\ pc[2] = "inflight"
    /\ job[1] # job[2]
    /\ urlCh = <<>>

\* C16: once the context is cancelled no worker goes from the queue into
\* ExtractPost; a worker inside ExtractPost leaves it only by sending its
\* result, for which the channel always has room; no URL yields two
\* results; and after a cancellation every worker exits and the channel is
\* closed, whatever the consumer does.
C16_PoolDrainsAfterCancel ==
    /\ [](\A w \in Busy : pc[w] = "returned" => ResultChRoom)
    /\ [](\A j \in UrlIds : CountOf(j) <= 1)
    /\ [][\A w \in Procs :
            /\ (ctxCancelled /\ pc[w] = "pull") => pc'[w] \in {"pull", "exit"}
            /\ (w \in Busy /\ pc'[w] \notin {"op", "wait", "dial", "inflight", "backoff", "returned"}) =>
                  /\ pc[w] = "returned"
                  /\ Len(results') = Len(results) + 1
                  /\ results'[Len(results')].id = job[w]]_vars
    /\ ctxCancelled ~> (closed /\ PoolDone)

\* C16 witness: the channel was closed after a cancellation that came
\* during the run; nothing was received, one URL yielded the context error
\* of the extraction it was in, and the other URL was dropped.
C16_Witness ==
    /\ closed /\ ctxCancelled /\ ~initCancelled
    /\ received = EmptyBag
    /\ Len(urls) = 2
    /\ Len(results) = 1
    /\ results[1].Err = "ctx"

\* The entries of sitemap s the claim selects under filter f, in document
\* order.
RECURSIVE Selected(_, _)
Selected(s, f) ==
    IF s = <<>> THEN <<>>
    ELSE LET e == Head(s)
             rest == Selected(Tail(s), f)
         IN IF ContainsPost(e.loc) /\ (f = "nil" \/ Accepts(f, e.lastmod))
            THEN <<e.loc>> \o rest
            ELSE rest

\* C18: a scan that visited every entry returns, in document order,
\* exactly the loc of the entries whose loc contains "/p/" and whose
\* lastmod the filter, if any, accepts; at any point of the scan the slice
\* holds that selection of the entries visited; with a nil filter no
\* lastmod is looked up.
C18_SitemapSelection ==
    /\ found = Selected(SubSeq(sitemap, 1, scanned), filter)
    /\ (pc[Caller] = "done" /\ callerResult = "urls" /\ scanned = Len(sitemap)) =>
          found = Selected(sitemap, filter)
    /\ filter = "nil" => lookups = 0
    /\ lookups <= scanned

\* C18 witness: a sitemap of two different posts was scanned to its end
\* with a date filter that accepted both, and both locs were returned in
\* document order.
C18_Witness ==
    /\ pc[Caller] = "done" /\ callerResult = "urls"
    /\ filter = "after"
    /\ scanned = 2 /\ Len(sitemap) = 2
    /\ sitemap[1].loc # sitemap[2].loc
    /\ found = <<sitemap[1].loc, sitemap[2].loc>>
    /\ lookups = 2

\* Script s carries the marker: window._preloads and JSON.parse(" .
Carries(s) == Has(s, "W") /\ Places(s, "J", "Q") # {}

\* The texts that script s holds between a JSON.parse(" and a later ") .
Delimited(s) ==
    {SubSeq(s, i + 2, e - 1) : <<i, e>> \in {x \in Places(s, "J", "Q") \X Places(s, "Q", "P") : x[1] + 2 <= x[2]}}

\* Text j, taken as the inside of a string literal, unescapes to JSON.
IsJSON(j) == ~Has(j, "Q") /\ ~Has(j, "b") /\ j \in {<<"o">>, <<"n">>}

PageScripts == {page[k] : k \in 1..Len(page)}

\* C17: ExtractPost returns an error, and the zero Post with it, whenever
\* no script of the page carries the marker, or no script that carries it
\* holds the string delimiters, or no delimited text of such a script
\* unescapes to JSON; a Post is returned only without an error.
C17_NoSilentEmptyPost ==
    pc[Caller] = "done" =>
        /\ (\A s \in PageScripts : ~Carries(s)) => callerResult # "nil"
        /\ (\A s \in PageScripts : Carries(s) => Delimited(s) = {}) => callerResult # "nil"
        /\ (\A s \in PageScripts : Carries(s) => \A j \in Delimited(s) : ~IsJSON(j)) =>
              callerResult # "nil"
        /\ callerResult # "nil" => post = "zero"
        /\ post = "post" => \E s \in PageScripts : Carries(s) /\ <<"o">> \in Delimited(s)

\* C17 witness: the first script of the page carries the marker without a
\* closing delimiter, the second holds text that is no JSON, and
\* ExtractPost failed on the second.
C17_Witness ==
    /\ pc[Caller] = "done"
    /\ Len(page) = 2
    /\ page[1] = <<"W", "J", "Q", "t">>
    /\ page[2] = <<"W", "J", "Q", "t", "Q", "P">>
    /\ callerResult = "parsePost"
    /\ post = "zero"


HasTag(h, t) == \E i \in 1..Len(h.elems) : h.elems[i].tag = t

\* What the asset download looks for is not in the HTML: no link of class
\* file-embed-button wide for DownloadFiles, no img for DownloadImages.
NothingToDownload ==
    IF callerKind = "DownloadFiles" THEN ~HasTag(html, "button") ELSE ~HasTag(html, "img")

\* C19: when the HTML contains no attachment link (DownloadFiles) or no
\* image (DownloadImages), the download makes no directory, makes no fetch
\* and leaves the directory as it was, and it returns a result with
\* Success = 0, Failed = 0, an empty list and the input HTML as UpdatedHTML.
C19_PassThrough ==
    (callerKind \in AssetKinds /\ NothingToDownload) =>
        /\ mkdirs = 0
        /\ fetches = 0
        /\ disk = before
        /\ pc[Caller] = "returned" =>
              /\ callerResult = "result"
              /\ successCount = 0
              /\ failedCount = 0
              /\ files = <<>>
              /\ updated = html

\* DownloadImages has returned for a fragment of HTML that holds an
\* attachment link and a plain link, but no image.
C19_Witness ==
    /\ callerKind = "DownloadImages"
    /\ pc[Caller] = "returned"
    /\ html.fragment
    /\ Len(html.elems) = 2
    /\ HasTag(html, "button") /\ HasTag(html, "a")
    /\ ~HasTag(html, "img")

\* The target of every attachment existed when DownloadFiles was called.
EveryTargetExisted == \A i \in 1..Len(files) : before[files[i].path] # "absent"

\* C20: a downloadSingleFile call whose target file exists makes no fetch,
\* leaves the directory as it is and reports Success; and a DownloadFiles
\* call for which every target existed returns with zero fetches, every
\* attachment successful and the directory unchanged.
C20_FilesIdempotent ==
    /\ [][(/\ callerKind = "DownloadFiles"
           /\ pc[Caller] = "loop"
           /\ idx' = idx + 1
           /\ disk[LocalPath(Elements[idx'])] # "absent")
          => /\ fetches' = fetches
             /\ disk' = disk
             /\ files'[idx'].ok]_vars
    /\ []((/\ callerKind = "DownloadFiles"
           /\ callerResult = "result"
           /\ EveryTargetExisted)
          => /\ fetches = 0
             /\ successCount = Len(Elements)
             /\ failedCount = 0
             /\ disk = before)

\* DownloadFiles has returned from a re-run with a cancelled context: it
\* had two attachments with different targets, both existed, and the
\* first had been written by the run before.
C20_Witness ==
    /\ callerKind = "DownloadFiles"
    /\ callerResult = "result"
    /\ ctxCancelled
    /\ Len(files) = 2
    /\ files[1].path # files[2].path
    /\ EveryTargetExisted
    /\ before[files[1].path] = "new"
    /\ fetches = 0

\* C21: a DownloadImages call for which the target file of every image
\* existed returns with zero fetches, every image successful and the
\* directory as it was.
C21_ImagesIdempotent ==
    (/\ callerKind = "DownloadImages"
     /\ callerResult = "result"
     /\ EveryTargetExisted)
    => /\ fetches = 0
       /\ successCount = Len(Elements)
       /\ failedCount = 0
       /\ disk = before

\* C22: in DownloadFiles and DownloadImages the list has one entry for
\* each element handled so far, an entry is unsuccessful exactly when it
\* carries an error, the call returns an error only before the first
\* download, and the result it returns has one entry per element with
\* Success + Failed equal to the number of entries.
C22_PartialFailure ==
    callerKind \in AssetKinds =>
        /\ Len(files) = idx
        /\ \A i \in 1..Len(files) :
              /\ files[i].url = Elements[i]
              /\ files[i].ok <=> files[i].error = "nil"
        /\ callerResult \in {"none", "result", "mkdir"}
        /\ callerResult = "mkdir" => files = <<>> /\ fetches = 0
        /\ callerResult = "result" =>
              /\ Len(files) = Len(Elements)
              /\ successCount + failedCount = Len(files)

\* A result of two entries: the download of the first failed while it was
\* copied, the second succeeded after it.
C22_Witness ==
    /\ callerKind \in AssetKinds
    /\ callerResult = "result"
    /\ Len(files) = 2
    /\ ~files[1].ok /\ files[1].error = "copy"
    /\ files[2].ok
    /\ successCount = 1 /\ failedCount = 1

\* The URLs of the entries of a srcset.
SrcsetURLs(s) == {s.entries[i].url : i \in 1..Len(s.entries)}

\* C26: updateSrcsetAttribute returns at most as many entries as the srcset
\* has, at most one entry per local path, with a width descriptor when an
\* entry mapped to that path has one; every entry is a local path or a URL
\* of the srcset, alone or followed by the descriptor of an entry of the
\* srcset, and the entries are joined by ", ".
C26_SrcsetWellFormed ==
    (callerKind = "updateSrcsetAttribute" /\ pc[Caller] = "returned") =>
        LET out == srcsetRet.entries
            in == srcsetArg.entries
        IN  /\ Len(out) <= Len(in)
            /\ srcsetRet.sep = ", "
            /\ \A i, j \in 1..Len(out) :
                  (i # j /\ out[i].url \in RelPaths) => out[i].url # out[j].url
            /\ \A i \in 1..Len(out) :
                  /\ out[i].url \in RelPaths \cup SrcsetURLs(srcsetArg)
                  /\ out[i].desc \in {""} \cup {in[k].desc : k \in 1..Len(in)}
            /\ \A k \in 1..Len(in) :
                  (/\ in[k].url \in DOMAIN urlToRelPath
                   /\ IsWidth(in[k].desc))
                  => \E i \in 1..Len(out) :
                        /\ out[i].url = urlToRelPath[in[k].url]
                        /\ IsWidth(out[i].desc)

\* The references to images in the document: the src of the img nodes and
\* the href of the a nodes that isImageURL accepts.
ImageRefs == {k \in 1..Len(doc) : doc[k].tag \in {"img", "a"} /\ isImageURL(doc[k].ref)}

\* C23: DownloadImages downloads no two URLs of the same image, and when it
\* has rewritten the HTML every reference to an image that it downloaded
\* successfully holds the local path of that download.
C23_OneDownloadPerImage ==
    callerKind = "DownloadImages" =>
        /\ \A i, j \in 1..Len(images) :
              i # j => ~isSameImage(images[i].OriginalURL, images[j].OriginalURL)
        /\ (callerResult = "result" /\ images # <<>>) =>
              \A k \in ImageRefs : \A i \in 1..Len(images) :
                  (images[i].Success /\ isSameImage(doc[k].ref, images[i].OriginalURL))
                  => rewritten[k].ref = images[i].LocalPath

\* The URL string u occurs in the document d: as the ref or the data of a
\* node, or as the URL of an entry of its srcset.
Occurs(u, d) ==
    \E k \in 1..Len(d) : u = d[k].ref \/ u = d[k].data \/ u \in SrcsetURLs(d[k].srcset)

\* The document is one img whose data-attrs src and src attribute are
\* different URLs of the same image.
OneImgTwoURLs ==
    /\ callerKind = "DownloadImages"
    /\ Len(doc) = 1
    /\ doc[1].tag = "img"
    /\ doc[1].data # "" /\ doc[1].ref # ""
    /\ doc[1].data # doc[1].ref
    /\ isSameImage(doc[1].data, doc[1].ref)

\* C24: for a document of one img whose data-attrs src A and src attribute
\* B are different URLs of the same image, DownloadImages makes one
\* download, of A, and when it succeeded neither A nor B occurs in the
\* rewritten HTML: the src and the data-attrs src both hold the local path
\* of the download.
C24_BothURLsReplaced ==
    OneImgTwoURLs =>
        /\ Len(images) <= 1
        /\ \A i \in 1..Len(images) : images[i].OriginalURL = doc[1].data
        /\ callerResult = "result" =>
              /\ Len(images) = 1
              /\ images[1].Success =>
                    /\ ~Occurs(doc[1].data, rewritten)
                    /\ ~Occurs(doc[1].ref, rewritten)
                    /\ rewritten[1].ref = images[1].LocalPath
                    /\ rewritten[1].data = images[1].LocalPath

\* The download of such an img with a srcset has succeeded and the HTML has
\* been rewritten.
C24_Witness ==
    /\ OneImgTwoURLs
    /\ doc[1].srcset # NoSrcset
    /\ callerResult = "result"
    /\ Len(images) = 1 /\ images[1].Success
    /\ rewritten[1].ref = "fa"

\* C25: when DownloadImages has rewritten the HTML, no URL of the AllURLs of
\* a successfully downloaded element occurs in it any more, and every place
\* of the document where such a URL occurred holds the local path of that
\* element's download.
C25_NoMappedURLRemains ==
    (callerKind = "DownloadImages" /\ callerResult = "result" /\ images # <<>>) =>
        \A i \in 1..Len(images) :
            images[i].Success =>
                \A j \in 1..Len(imageElements[i].AllURLs) :
                    LET u == imageElements[i].AllURLs[j]
                        path == images[i].LocalPath
                    IN  /\ ~Occurs(u, rewritten)
                        /\ \A k \in 1..Len(doc) :
                              /\ doc[k].ref = u => rewritten[k].ref = path
                              /\ doc[k].data = u => rewritten[k].data = path
                              /\ u \in SrcsetURLs(doc[k].srcset)
                                 => path \in SrcsetURLs(rewritten[k].srcset)

\* The entries of srcset s whose URL is no key of the map m.
UnmappedEntries(s, m) ==
    LET unmapped(e) == e.url \notin DOMAIN m
    IN  SelectSeq(s.entries, unmapped)

\* The entries of srcset s that are no local path.
RemoteEntries(s) ==
    LET remote(e) == e.url \notin RelPaths
    IN  SelectSeq(s.entries, remote)

\* C27: when DownloadImages has rewritten the HTML, a src, href or
\* data-attrs src that is no key of the map is as it was, a srcset without
\* a mapped URL has the entries it had, and the unmapped entries of any
\* srcset are kept, unchanged and in their order.
C27_OnlyMappedAltered ==
    (callerKind = "DownloadImages" /\ callerResult = "result") =>
        \A k \in 1..Len(doc) :
            /\ rewritten[k].tag = doc[k].tag
            /\ doc[k].ref \notin DOMAIN urlToRelPath => rewritten[k].ref = doc[k].ref
            /\ doc[k].data \notin DOMAIN urlToRelPath => rewritten[k].data = doc[k].data
            /\ SrcsetURLs(doc[k].srcset) \cap DOMAIN urlToRelPath = {}
               => rewritten[k].srcset.entries = doc[k].srcset.entries
            /\ RemoteEntries(rewritten[k].srcset) = UnmappedEntries(doc[k].srcset, urlToRelPath)

\* The posts of the archive that have no file of their own, in the format
\* asked for, in the output folder.
NotYetWritten ==
    LET unwritten(url) == makePath(SlugOf(url), format) \notin folder
    IN  SelectSeq(archive, unwritten)

\* C28: when the work list of an archive has been filtered and no post
\* has been handled since, it holds exactly the URLs of the posts whose own
\* file, in the format asked for, is not in the output folder.
C28_ExactlyTheUnwritten ==
    (callerKind = "download" /\ pc[Caller] \in {"posts", "returned"} /\ progress = {})
        => filtered = NotYetWritten

\* The interval of the k-th retry of a call under a policy of its own.
RECURSIVE OwnInterval(_)
OwnInterval(k) ==
    IF k <= 1 THEN InitialInterval
    ELSE IF 2 * OwnInterval(k - 1) >= MaxIntervalTicks THEN MaxIntervalTicks
    ELSE 2 * OwnInterval(k - 1)

\* C29: every FetchURL call on one Fetcher has a retry budget of its own:
\* what NextBackOff returns at its k-th retry is the k-th interval of the
\* policy, or Stop when that interval would end after the elapsed-time
\* budget counted from the beginning of this call, whatever other calls on
\* the Fetcher have done meanwhile.
C29_OwnRetryBudget ==
    callerKind = "RetryNotify" =>
        \A p \in Calls :
            retryCounter[p] >= 1 =>
                interval[p] = IF (asked[p] - began[p]) + OwnInterval(retryCounter[p]) > MaxElapsedTicks
                              THEN Stop
                              ELSE OwnInterval(retryCounter[p])

\* C30: GetAllPostsURLs never returns, with a nil error, a list cut short
\* by a cancellation during the scan: a returned list is the selection of
\* the whole sitemap.
C30_NoTruncatedList ==
    (callerKind = "GetAllPostsURLs" /\ pc[Caller] = "done" /\ callerResult = "urls")
        => found = Selected(sitemap, filter)

\* C31: FetchURL returns exactly one of a body and an error: when a call
\* has returned, its body is non-nil exactly if its error is nil, and a
\* body is only ever obtained by the step that receives a response, which
\* then ends the call without an error.
C31_BodyXorError ==
    /\ [][\A p \in Procs :
            (body'[p] = "open" /\ body[p] # "open") =>
                (pc[p] = "inflight" /\ err'[p] = "nil" /\ pc'[p] \in {"returned", "send"})]_vars
    /\ [](\A p \in Procs :
            pc[p] \in {"returned", "send"} => ((body[p] = "nil") <=> (err[p] # "nil")))

\* C31 witness: a direct call has returned a body and a nil error after a
\* 429 was retried.
C31_Witness ==
    /\ callerKind = "FetchURL"
    /\ pc[Caller] = "returned"
    /\ body[Caller] = "open" /\ err[Caller] = "nil"
    /\ retryCounter[Caller] >= 1

\* The decimal digits of the natural number n.
RECURSIVE Itoa(_)
Itoa(n) ==
    LET d == <<CASE n % 10 = 0 -> "0" [] n % 10 = 1 -> "1" [] n % 10 = 7 -> "7" [] OTHER -> "?">>
    IN  IF n < 10 THEN d ELSE Itoa(n \div 10) \o d

\* The natural numbers of at most MaxHeader digits whose digits are
\* among the characters of a header.
RECURSIVE Pow10(_)
Pow10(k) == IF k = 0 THEN 1 ELSE 10 * Pow10(k - 1)

Writable == {m \in 0..(Pow10(MaxHeader) - 1) : \A i \in 1..Len(Itoa(m)) : Itoa(m)[i] # "?"}

\* The header values that write an integer, each with the integer it
\* writes: decimal digits, with or without a sign and leading zeros.
IntegerWritings ==
    {<<sign \o zeros \o Itoa(m), IF sign = <<"-">> THEN 0 - m ELSE m>> :
        sign \in {<<>>, <<"+">>, <<"-">>}, zeros \in {[i \in 1..k |-> "0"] : k \in 0..MaxHeader},
        m \in Writable}

\* C32: for a 429 response fetch returns a FetchError with TooManyRequests
\* set and status 429 whatever the header holds; its RetryAfter is the
\* integer the Retry-After header writes, and 60 when there is no header or
\* the header writes no integer.
C32_RetryAfter ==
    (callerKind = "fetch" /\ ret # <<>> /\ arg.status = 429) =>
        /\ ret[1].TooManyRequests /\ ret[1].StatusCode = 429 /\ ret[1].body = "nil"
        /\ \A w \in IntegerWritings : w[1] = arg.header => ret[1].RetryAfter = w[2]
        /\ (~\E w \in IntegerWritings : w[1] = arg.header) => ret[1].RetryAfter = defaultRetryAfter

\* C32 witness: a 429 whose header is no integer has been answered with the
\* retryable error and 60 seconds.
C32_Witness ==
    /\ callerKind = "fetch" /\ ret # <<>>
    /\ arg.status = 429 /\ arg.header = <<"x", "7">>
    /\ ret[1].TooManyRequests /\ ret[1].RetryAfter = defaultRetryAfter

\* The elements of DownloadImages whose download succeeded, and the URLs
\* of the AllURLs of element i.
Succeeded == {i \in 1..Len(images) : images[i].Success}

URLsOf(i) == {imageElements[i].AllURLs[j] : j \in 1..Len(imageElements[i].AllURLs)}

\* C33, as amended: when DownloadImages has run its loop, the keys of the
\* map are exactly the AllURLs of the elements whose download succeeded,
\* every key is mapped to the local path of the last such element that
\* holds it, and where a URL held by failed elements only stood in an img,
\* a or source node it still stands in the rewritten HTML.
C33_MapOfSucceeded ==
    (callerKind = "DownloadImages" /\ callerResult = "result" /\ images # <<>>) =>
        /\ DOMAIN urlToRelPath = UNION {URLsOf(i) : i \in Succeeded}
        /\ \A u \in DOMAIN urlToRelPath :
              LET holders == {i \in Succeeded : u \in URLsOf(i)}
                  last == CHOOSE i \in holders : \A j \in holders : j <= i
              IN  urlToRelPath[u] = images[last].LocalPath
        /\ \A i \in (1..Len(images)) \ Succeeded : \A u \in URLsOf(i) :
              u \notin DOMAIN urlToRelPath =>
                 \A k \in 1..Len(doc) :
                    /\ doc[k].ref = u => rewritten[k].ref = u
                    /\ doc[k].data = u => rewritten[k].data = u
                    /\ u \in SrcsetURLs(doc[k].srcset) => u \in SrcsetURLs(rewritten[k].srcset)

\* C33 witness: two elements that share a URL and have different local
\* paths have both been downloaded.
C33_Witness ==
    /\ callerKind = "DownloadImages" /\ callerResult = "result"
    /\ Len(images) = 2
    /\ images[1].Success /\ images[2].Success
    /\ images[1].LocalPath # images[2].LocalPath
    /\ URLsOf(1) \cap URLsOf(2) # {}

\* C33 as stated: every URL of the AllURLs of an element whose download
\* succeeded is mapped to the local path of that element.
C33_EveryGroupItsPath ==
    (callerKind = "DownloadImages" /\ callerResult = "result" /\ images # <<>>) =>
        \A i \in Succeeded : \A u \in URLsOf(i) :
            u \in DOMAIN urlToRelPath /\ urlToRelPath[u] = images[i].LocalPath

\* C40: the name either sanitizer returns is not empty, is at most 200
\* characters long and holds none of the characters < > : " / \ | ? * .
C40_SafeName ==
    (callerKind \in {"sanitizeFilename", "generateSafeFilename"} /\ ret # <<>>) =>
        /\ ret[1] # <<>>
        /\ StrLen(ret[1]) >= 1
        /\ StrLen(ret[1]) <= 200
        /\ \A i \in 1..Len(ret[1]) : ret[1][i][1] \notin {"/", "\\"} /\ ret[1][i][2] >= 1

\* C40 witness: a name of more than 200 characters that holds unsafe
\* characters and ends in a dot was cut to 200 characters, the dot kept.
C40_Witness ==
    /\ callerKind = "generateSafeFilename" /\ ret # <<>>
    /\ arg.Path = <<<<"\\", 1>>, <<"a", 200>>, <<".", 1>>>>
    /\ ret[1] = <<<<"_", 1>>, <<"a", 198>>, <<".", 1>>>>

\* C34: two assets of different URLs that one call downloads never get
\* the same local path.
C34_DistinctPaths ==
    (callerKind = "localPath" /\ Len(ret) = 2) => ret[1].localPath # ret[2].localPath

\* C35: a file that DownloadImages or DownloadFiles creates lies in the
\* directory made for the post, and that directory is a direct child of
\* the assets directory of the output directory, whatever the post
\* identifier and the URL hold.
C35_Contained ==
    (callerKind = "localPath" /\ Len(ret) = 1) =>
        LET r == ret[1]
            assets == AssetsDir(arg.caller)
        IN  /\ Len(r.dir) = Len(assets) + 1 /\ SubSeq(r.dir, 1, Len(assets)) = assets
            /\ r.created =>
                  /\ Len(r.localPath) = Len(r.dir) + 1
                  /\ SubSeq(r.localPath, 1, Len(r.dir)) = r.dir

\* C36: isSameImage(u1, u2) is true only if both URLs hold the same UUID
\* or, one of them holding none, they have the same file name token; it
\* gives the same answer for (u2, u1); and a URL from which no identifier
\* can be extracted is not the same image as a URL that has one.
C36_SameImage ==
    (callerKind = "isSameImage" /\ Len(ret) = 1) =>
        LET u1 == arg.url1
            u2 == arg.url2
        IN  /\ ret[1] =>
                  \/ UUID(u1) # "" /\ UUID(u1) = UUID(u2)
                  \/ /\ UUID(u1) = "" \/ UUID(u2) = ""
                     /\ extractImageID(u1) # ""
                     /\ extractImageID(u1) = extractImageID(u2)
            /\ ret[1] = isSameImage(u2, u1)
            /\ (extractImageID(u1) = "" /\ extractImageID(u2) # "") => ~ret[1]

\* The groups after the URL u is attached to group g.
AttachedTo(g, u) == [imageElements EXCEPT ![g].AllURLs = addURL(@, u)]

\* The groups whose BestURL isSameImage judges the same image as u: the
\* range over the map allURLsToCollect stops at the first of them it meets.
SameGroups(u) == {i \in 1..Len(imageElements) : isSameImage(u, imageElements[i].BestURL)}

\* C37: extractImageElements is deterministic: whatever group the range
\* over the map yields first for the URL of an a or a source node, the
\* groups and their AllURLs after the round are the same.
C37_SameOnEveryRun ==
    (callerKind = "DownloadImages" /\ pc[Caller] = "extract" /\ pending # <<>>) =>
        \A g1, g2 \in SameGroups(Head(pending)) :
            AttachedTo(g1, Head(pending)) = AttachedTo(g2, Head(pending))

\* The entries of a srcset that have a width descriptor, and those of them
\* whose URL is an absolute http(s) URL.
WidthEntries(s) == {i \in 1..Len(s.entries) : IsWidth(s.entries[i].desc)}
HttpWidthEntries(s) == {i \in WidthEntries(s) : IsHttp(s.entries[i].url)}

\* The width to choose among the widths ws for a target: the target, else
\* the smallest width above it, else the largest below it.
SelectedWidth(ws, target) ==
    IF target \in ws THEN target
    ELSE IF \E w \in ws : w > target
         THEN CHOOSE w \in ws : w > target /\ \A v \in ws : v > target => w <= v
         ELSE CHOOSE w \in ws : \A v \in ws : v <= w

\* url is the URL of an entry of s, among those of index in I, that has
\* the width to choose for the target; "" when I is empty.
SelectsAmong(s, I, target, url) ==
    IF I = {} THEN url = ""
    ELSE \E i \in I :
            /\ s.entries[i].url = url
            /\ WidthOf(s.entries[i].desc) =
                  SelectedWidth({WidthOf(s.entries[j].desc) : j \in I}, target)

Reversed(s) == [s EXCEPT !.entries = [i \in 1..Len(@) |-> @[Len(@) + 1 - i]]]

\* C39 (amended): among the entries that have an absolute http(s) URL and
\* a width descriptor, extractURLFromSrcset returns the URL of an entry of
\* the target width if there is one, else of the smallest width above the
\* target, else of the largest width below it; the empty string when there
\* is no such entry, so for an empty srcset; and the entries in reverse
\* order give a URL of the same width.
C39_ClosestWidthOfHttpEntries ==
    (callerKind = "extractURLFromSrcset" /\ Len(ret) = 1) =>
        LET s == arg.srcset
        IN  /\ SelectsAmong(s, HttpWidthEntries(s), arg.targetWidth, ret[1])
            /\ SelectsAmong(s, HttpWidthEntries(s), arg.targetWidth,
                            extractURLFromSrcset(Reversed(s), arg.targetWidth))
            /\ s.entries = <<>> => ret[1] = ""

\* A srcset of two absolute URLs of widths above the target, the larger
\* first: the URL of the smaller width is returned.
C39_Witness ==
    /\ callerKind = "extractURLFromSrcset" /\ Len(ret) = 1
    /\ arg.targetWidth = 100
    /\ arg.srcset.entries = <<[url |-> "Aw", desc |-> "1456w"], [url |-> "A", desc |-> "424w"]>>
    /\ ret[1] = "A"

\* C39 as stated: the choice is among all the entries that have a width.
C39_ClosestWidth ==
    (callerKind = "extractURLFromSrcset" /\ Len(ret) = 1) =>
        LET s == arg.srcset
        IN  /\ WidthEntries(s) # {} =>
                  SelectsAmong(s, WidthEntries(s), arg.targetWidth, ret[1])
            /\ s.entries = <<>> => ret[1] = ""

\* u is the URL the priority rule gives for the img node n: the src of
\* data-attrs when not empty, otherwise the srcset URL selected for the
\* target width, otherwise the src attribute.
IsBest(n, u) ==
    IF n.data # "" THEN u = n.data
    ELSE IF HttpWidthEntries(n.srcset) # {}
         THEN SelectsAmong(n.srcset, HttpWidthEntries(n.srcset), getTargetWidth, u)
         ELSE u = n.ref

\* The URLs of the img node n: of data-attrs, of the srcset (its absolute
\* URLs), of src.
ElementURLs(n) ==
    ({n.data, n.ref} \ {""})
    \cup {n.srcset.entries[i].url : i \in {k \in 1..Len(n.srcset.entries) :
                                                IsHttp(n.srcset.entries[k].url)}}

\* The list holds each member of the set exactly once, and nothing else.
ExactlyOnce(list, set) ==
    /\ {list[i] : i \in 1..Len(list)} = set
    /\ Len(list) = Cardinality(set)

\* The groups els are those of the img nodes of the document d.
GroupsOfImgs(d, els) ==
    LET imgs == {i \in 1..Len(d) : d[i].tag = "img"}
        groups == 1..Len(els)
    IN  /\ \A g \in groups : \E i \in imgs :
              /\ IsBest(d[i], els[g].BestURL)
              /\ ExactlyOnce(els[g].AllURLs, ElementURLs(d[i]))
        /\ \A i \in imgs :
              \/ IsBest(d[i], "")
              \/ \E g \in groups : IsBest(d[i], els[g].BestURL)
        /\ \A g, h \in groups : els[g].BestURL = els[h].BestURL => g = h

\* C38: the groups of the loop over the img elements are the groups of the
\* img elements: the BestURL of every group is the one the priority rule
\* gives for an element and its AllURLs holds each URL of that element
\* exactly once; every img element with a best URL has a group; and no
\* two groups have the same BestURL.
C38_BestURLAndAllURLs ==
    (callerKind = "extractImageElements" /\ Len(ret) = 1) => GroupsOfImgs(arg, ret[1])

====
